---- MODULE Spec2Model ----
(***************************************************************************)
(* LogForge: a synchronous logging pipeline.  A DefaultLogger owns a       *)
(* LogFilter, a LogPrinter (the head of a decorator chain) and a           *)
(* LogOutput.  Log(event) asks the filter, renders the event into Lines    *)
(* and hands an OutputEvent to the output.                                 *)
(*                                                                         *)
(* Text is modelled as sequences of one-character strings (a Line), Lines  *)
(* as sequences of Line.  The box-drawing characters are written with the  *)
(* ASCII stand-ins "TL", "TR", "BL", "BR", "H" and "V".                    *)
(***************************************************************************)
EXTENDS Integers, Sequences, FiniteSets, TLC

VARIABLES
    NDEBUG,       \* the build's NDEBUG preprocessor flag (release build)
    LogFilter,    \* DefaultLogger::LogFilter  [kind, MinSeverity]
    LogPrinter,   \* DefaultLogger::LogPrinter [chain, and each stage's members]
    LogOutput,    \* DefaultLogger::LogOutput  [kind, stream, outputs, m_Outputs]
    streams,      \* contents of every std::wostream: stream id -> Lines written
    streamState,  \* condition of every std::wostream: "good", "fail", "throw"
    deliveries,   \* every LogOutput::Output call on a leaf output: <<id, OutputEvent>>
    printCalls,   \* number of LogPrinter::Print calls on the chain head
    outputCalls,  \* number of LogOutput::Output calls on the logger's output
    call,         \* the last operation: its input, how it ended, what it returned
    status        \* "ok", "crashed" (undefined behaviour brought the process down)

vars == <<NDEBUG, LogFilter, LogPrinter, LogOutput, streams, streamState,
          deliveries, printCalls, outputCalls, call, status>>

----------------------------------------------------------------------------
(* Bounds of the model *)

MaxMsgLen == 3
MaxFilterMsgLen == 1
MaxLogCalls == 2
MaxWrites == 2
MaxOutputs == 3
MaxGarbage == 1
MaxDecorators == 2

----------------------------------------------------------------------------
(* Severity.hpp: enum class Severity, enumerators in declaration order *)

Trace == 0
Debug == 1
Info == 2
Warning == 3
Error == 4
Fatal == 5

Severity == {Trace, Debug, Info, Warning, Error, Fatal}

----------------------------------------------------------------------------
(* Types.hpp *)

NL == "\n"
SP == " "

Chars == {"a", NL}

\* every Line over Chars of length at most n
LinesUpTo(n) == UNION {[1..k -> Chars] : k \in 0..n}

\* LogMessage = std::variant<Line, std::exception>
TextMessage(text) == [kind |-> "Line", text |-> text]
ExceptionMessage(what) == [kind |-> "exception", text |-> what]

LogMessages(n) ==
    {TextMessage(t) : t \in LinesUpTo(n)} \cup {ExceptionMessage(<<"x">>)}

TimePoints == {"t0", "t1"}
SourceLocations == {"main.cpp(1)", "util.cpp(7)"}

\* LogEvent.hpp: struct LogEvent
LogEvents(n) ==
    [Severity : Severity, Message : LogMessages(n),
     Time : TimePoints, SourceLocation : SourceLocations]

\* std::optional<Line>
NullOpt == [has_value |-> FALSE, value |-> <<>>]
Some(v) == [has_value |-> TRUE, value |-> v]

NoEvent ==
    [Severity |-> Trace, Message |-> TextMessage(<<>>),
     Time |-> "t0", SourceLocation |-> "main.cpp(1)"]

NoCall ==
    [op |-> "none", event |-> NoEvent, outcome |-> "none",
     result |-> FALSE, arg |-> <<>>, inner |-> <<>>, lines |-> <<>>, calls |-> <<>>]

----------------------------------------------------------------------------
(* Filters *)

\* ProductionFilter::Filter
ProductionFilter_Filter_Strict(event, MinSeverity) == event.Severity > MinSeverity

ProductionFilter_Filter(event, MinSeverity) == event.Severity >= MinSeverity

\* DevelopmentFilter.hpp under a given NDEBUG: the #ifdef NDEBUG branch reads
\* `return false` with no terminating semicolon, so a translation unit that
\* includes the header with NDEBUG defined is ill-formed.
DevelopmentFilter_WellFormed(ndebug) == ~ndebug

\* DevelopmentFilter::Filter, the branch the preprocessor selects
DevelopmentFilter_Filter(ndebug, event, MinSeverity) ==
    IF ndebug THEN FALSE ELSE event.Severity >= MinSeverity

NoPrinter ==
    [chain |-> <<>>, SeverityPrefixes |-> <<>>, LongestPrefixLength |-> 0,
     TimeFormat |-> "", TimePrefix |-> <<>>,
     SourceLocationFormatter |-> "nullptr", LocationPrefix |-> <<>>,
     SeverityColors |-> <<>>,
     LevelPrefixes |-> <<>>, LogFmtTimeFormat |-> ""]
NoOutput == [kind |-> "none", stream |-> 0, outputs |-> <<>>, m_Outputs |-> <<>>]
NoFilter == [kind |-> "none", MinSeverity |-> Trace]

\* LogFilter::LogFilter / ProductionFilter / DevelopmentFilter constructors
NewFilter(kind, minSeverity) == [kind |-> kind, MinSeverity |-> minSeverity]

FilterEvents == LogEvents(MaxFilterMsgLen)

InitFilter ==
    /\ NDEBUG \in BOOLEAN
    /\ LogFilter \in {NewFilter(k, m) : k \in {"Production", "Development"}, m \in Severity}
    /\ LogPrinter = NoPrinter
    /\ LogOutput = NoOutput
    /\ streams = <<>>
    /\ streamState = <<>>
    /\ deliveries = <<>>
    /\ printCalls = 0
    /\ outputCalls = 0
    /\ call = NoCall
    /\ status = "ok"

\* a caller invokes ProductionFilter::Filter(event)
ProductionFilterCall(event) ==
    /\ LogFilter.kind = "Production"
    /\ call' = [NoCall EXCEPT !.op = "Filter", !.event = event, !.outcome = "returned",
                              !.result = ProductionFilter_Filter(event, LogFilter.MinSeverity)]
    /\ UNCHANGED <<NDEBUG, streamState, LogFilter, LogPrinter, LogOutput, streams, deliveries,
                   printCalls, outputCalls, status>>

\* a caller invokes DevelopmentFilter::Filter(event)
DevelopmentFilterCall(event) ==
    /\ LogFilter.kind = "Development"
    /\ call' = IF DevelopmentFilter_WellFormed(NDEBUG)
               THEN [NoCall EXCEPT !.op = "Filter", !.event = event, !.outcome = "returned",
                         !.result = DevelopmentFilter_Filter(NDEBUG, event, LogFilter.MinSeverity)]
               ELSE [NoCall EXCEPT !.op = "Filter", !.event = event, !.outcome = "ill-formed"]
    /\ UNCHANGED <<NDEBUG, streamState, LogFilter, LogPrinter, LogOutput, streams, deliveries,
                   printCalls, outputCalls, status>>

NextFilter ==
    \/ \E event \in FilterEvents : ProductionFilterCall(event)
    \/ \E event \in FilterEvents : DevelopmentFilterCall(event)

SpecFilter == InitFilter /\ [][NextFilter]_vars

\* the enumerators in the order the specification gives them
SeverityOrder == <<Trace, Debug, Info, Warning, Error, Fatal>>
Rank(s) == CHOOSE i \in 1..Len(SeverityOrder) : SeverityOrder[i] = s

C3_Accepts ==
    (call.op = "Filter" /\ LogFilter.kind = "Production") =>
        /\ call.outcome = "returned"
        /\ call.result = (Rank(call.event.Severity) >= Rank(LogFilter.MinSeverity))

C3_SameSeveritySameAnswer ==
    (/\ LogFilter.kind = "Production"
     /\ call.op = "Filter" /\ call'.op = "Filter"
     /\ call'.event.Severity = call.event.Severity) => call'.result = call.result

\* C3: the threshold filter accepts an event of severity s iff s >= t in the
\* order Trace < Debug < Info < Warning < Error < Fatal, and two calls whose
\* events differ only in message, timestamp or source origin get the same answer.
C3_ThresholdFilter == []C3_Accepts /\ [][C3_SameSeveritySameAnswer]_vars

\* an event at the threshold itself, with an exception message, was accepted
C3_Witness ==
    /\ call.op = "Filter" /\ LogFilter.kind = "Production"
    /\ call.event.Severity = Warning /\ LogFilter.MinSeverity = Warning
    /\ call.event.Message.kind = "exception"
    /\ call.result = TRUE

\* C4 (as claimed): in release mode the mode-gated filter rejects every event,
\* in non-release mode it answers what the threshold filter with the same
\* threshold answers.
C4_ModeGatedFilter ==
    (call.op = "Filter" /\ LogFilter.kind = "Development") =>
        /\ call.outcome = "returned"
        /\ call.result = IF NDEBUG THEN FALSE
                         ELSE ProductionFilter_Filter(call.event, LogFilter.MinSeverity)

----------------------------------------------------------------------------
(* Printers *)

SetMax(S) == CHOOSE m \in S : \A x \in S : x <= m

\* std::basic_string(count, ch)
Line_Fill(count, ch) == [i \in 1..count |-> ch]

\* a - b on std::size_t: below zero the difference wraps around, to a count no
\* string can have (negative values stand for the wrapped ones)
Size_Minus(a, b) == [wrapped |-> a < b, value |-> a - b]

\* what evaluating undefined behaviour can do: bring the process down, or
\* carry on with some value read from wherever the invalid iterator points
UBOutcomes ==
    {[crash |-> TRUE, value |-> 0]} \cup {[crash |-> FALSE, value |-> g] : g \in 0..MaxGarbage}

Returned(lines) == [crashed |-> FALSE, thrown |-> FALSE, lines |-> lines]
Crashed == [crashed |-> TRUE, thrown |-> FALSE, lines |-> <<>>]
\* Print was left by an exception
Thrown == [crashed |-> FALSE, thrown |-> TRUE, lines |-> <<>>]

\* index of the first `delim` in s, 0 when there is none (std::ranges::search)
RECURSIVE FindFrom(_, _, _)
FindFrom(s, delim, i) ==
    IF i > Len(s) THEN 0
    ELSE IF s[i] = delim THEN i
    ELSE FindFrom(s, delim, i + 1)

\* std::ranges::split_view's iteration once begin() is not end(): the segment
\* up to the next delimiter, then the rest; a delimiter at the very end leaves
\* one trailing empty segment
RECURSIVE SplitSegments(_, _)
SplitSegments(s, delim) ==
    LET pos == FindFrom(s, delim, 1) IN
    IF pos = 0 THEN <<s>>
    ELSE <<SubSeq(s, 1, pos - 1)>> \o SplitSegments(SubSeq(s, pos + 1, Len(s)), delim)

\* message | std::views::split(L'\n'): begin() == end() for an empty range
SplitView(s, delim) == IF s = <<>> THEN <<>> ELSE SplitSegments(s, delim)

ErrorPrefix == <<"E", "r", "r", "o", "r", ":", " ">>

MessagePrinter_Print_WhatAlone(event) ==
    IF event.Message.kind = "Line"
    THEN SplitView(event.Message.text, NL)
    ELSE <<event.Message.text>>

\* MessagePrinter::Print
MessagePrinter_Print(event) ==
    IF event.Message.kind = "Line"
    THEN SplitView(event.Message.text, NL)
    ELSE <<ErrorPrefix \o event.Message.text>>

\* PrefixPrinter.hpp: DefaultSeverityPrefixes
DefaultSeverityPrefixes ==
    (Trace :> Some(<<"[", "T", "R", "A", "C", "E", "]", ":", " ">>)) @@
    (Debug :> Some(<<"[", "D", "E", "B", "U", "G", "]", ":", " ">>)) @@
    (Info :> Some(<<"[", "I", "N", "F", "O", "]", ":", " ">>)) @@
    (Warning :> Some(<<"[", "W", "A", "R", "N", "I", "N", "G", "]", ":", " ">>)) @@
    (Error :> Some(<<"[", "E", "R", "R", "O", "R", "]", ":", " ">>)) @@
    (Fatal :> Some(<<"[", "F", "A", "T", "A", "L", "]", ":", " ">>))

\* the prefix mappings a caller passes: any entries for the severities Trace,
\* Info and Fatal (a text, or an entry holding no value), or the default map
PrefixValues == {NullOpt, Some(<<"T">>), Some(<<"W", "W">>)}
PrefixMaps ==
    UNION {[D -> PrefixValues] : D \in SUBSET {Trace, Info, Fatal}}
        \cup {DefaultSeverityPrefixes}

PrefixLength(prefix) == IF prefix.has_value THEN Len(prefix.value) ELSE 0

GetLongestPrefixLength_Min(prefixes, ub) ==
    IF DOMAIN prefixes = {}
    THEN [crashed |-> ub.crash, value |-> ub.value]
    ELSE [crashed |-> FALSE,
          value |-> -SetMax({-PrefixLength(prefixes[s]) : s \in DOMAIN prefixes})]

\* PrefixPrinter::GetLongestPrefixLength: std::ranges::max over the mapped
\* values; on an empty range its behaviour is undefined
GetLongestPrefixLength(prefixes, ub) ==
    IF DOMAIN prefixes = {}
    THEN [crashed |-> ub.crash, value |-> ub.value]
    ELSE [crashed |-> FALSE,
          value |-> SetMax({PrefixLength(prefixes[s]) : s \in DOMAIN prefixes})]

\* PrefixPrinter::GetPrefixForSeverity
GetPrefixForSeverity(SeverityPrefixes, severity) ==
    IF severity \in DOMAIN SeverityPrefixes THEN SeverityPrefixes[severity] ELSE NullOpt

\* PrefixPrinter::Print, after RealPrinter.Print(event) returned printedLines
PrefixPrinter_Print(printedLines, event, SeverityPrefixes, LongestPrefixLength) ==
    LET prefix == GetPrefixForSeverity(SeverityPrefixes, event.Severity) IN
    IF ~prefix.has_value THEN Returned(printedLines)
    ELSE LET spacingCount == Size_Minus(LongestPrefixLength, Len(prefix.value)) IN
         \* Line(count, L' ') with a wrapped count throws std::length_error
         IF spacingCount.wrapped THEN Thrown
         ELSE LET spacing == Line_Fill(spacingCount.value, SP)
                  leading == prefix.value \o spacing
              IN  Returned([i \in 1..Len(printedLines) |-> leading \o printedLines[i]])

\* BoxPrinter.hpp: the border characters
TopLeft == "TL"
TopRight == "TR"
BottomLeft == "BL"
BottomRight == "BR"
Horizontal == "H"
Vertical == "V"

GetLongestLineLength_First(lines, ub) ==
    IF lines = <<>>
    THEN [crashed |-> ub.crash, has_value |-> TRUE, value |-> ub.value]
    ELSE [crashed |-> FALSE, has_value |-> TRUE, value |-> Len(lines[1])]

\* BoxPrinter::GetLongestLineLength: std::ranges::max over the line lengths,
\* converted to an engaged std::optional; on no lines its behaviour is undefined
GetLongestLineLength(lines, ub) ==
    IF lines = <<>>
    THEN [crashed |-> ub.crash, has_value |-> TRUE, value |-> ub.value]
    ELSE [crashed |-> FALSE, has_value |-> TRUE,
          value |-> SetMax({Len(lines[i]) : i \in 1..Len(lines)})]

BoxPrinter_Print_NoLowerLine(printedLines, ub) ==
    LET longestLine == GetLongestLineLength(printedLines, ub) IN
    IF longestLine.crashed THEN Crashed
    ELSE LET horizontalLine == Line_Fill(longestLine.value, Horizontal)
             upperLine == <<TopLeft>> \o horizontalLine \o <<TopRight>>
             boxedLines ==
                 [i \in 1..Len(printedLines) |->
                     LET spacingCount == Size_Minus(longestLine.value, Len(printedLines[i]))
                         trailingSpacing == Line_Fill(spacingCount.value, SP)
                     IN  <<Vertical>> \o printedLines[i] \o trailingSpacing \o <<Vertical>>]
         IN  IF \E i \in 1..Len(printedLines) :
                    Size_Minus(longestLine.value, Len(printedLines[i])).wrapped
             THEN Thrown
             ELSE Returned(<<upperLine>> \o boxedLines)

\* BoxPrinter::Print, after RealPrinter.Print(event) returned printedLines
BoxPrinter_Print(printedLines, ub) ==
    LET longestLine == GetLongestLineLength(printedLines, ub) IN
    IF longestLine.crashed THEN Crashed
    ELSE IF ~longestLine.has_value THEN Returned(printedLines)
    ELSE LET horizontalLine == Line_Fill(longestLine.value, Horizontal)
             upperLine == <<TopLeft>> \o horizontalLine \o <<TopRight>>
             lowerLine == <<BottomLeft>> \o horizontalLine \o <<BottomRight>>
             boxedLines ==
                 [i \in 1..Len(printedLines) |->
                     LET spacingCount == Size_Minus(longestLine.value, Len(printedLines[i]))
                         trailingSpacing == Line_Fill(spacingCount.value, SP)
                     IN  <<Vertical>> \o printedLines[i] \o trailingSpacing \o <<Vertical>>]
         \* Line(spacingCount, L' ') with a wrapped count throws std::length_error
         IN  IF \E i \in 1..Len(printedLines) :
                    Size_Minus(longestLine.value, Len(printedLines[i])).wrapped
             THEN Thrown
             ELSE Returned(<<upperLine>> \o boxedLines \o <<lowerLine>>)

\* a time point localtime_s cannot convert (it returns an error code)
InvalidTime == "t_invalid"

\* localtime_s(&timeInfo, &time) != 0
Localtime_s_Fails(timePoint) == timePoint = InvalidTime

\* TimestampPrinter.hpp: DefaultTimeFormat, DefaultTimePrefix;
\* LogFmtPrinter::DefaultTimeFormat
DefaultTimeFormat == "%d.%m.%Y %H:%M:%S"
DefaultTimePrefix == <<"T", "i", "m", "e", ":", " ">>
LogFmtDefaultTimeFormat == "%FT%T%z"

\* std::put_time(&timeInfo, format): the text of the local time of the time
\* point in the format; it depends on both and on nothing else
Put_time(timePoint, format) == <<"{", timePoint, " ", "a", "s", " ", format, "}">>

InvalidTimeText ==
    <<"<", "I", "n", "v", "a", "l", "i", "d", " ", "T", "i", "m", "e", ">">>

\* TimestampPrinter::FormatTime
FormatTime(timePoint, TimeFormat) ==
    IF Localtime_s_Fails(timePoint) THEN NullOpt
    ELSE Some(Put_time(timePoint, TimeFormat))

\* std::optional::value_or
Value_or(optional, fallback) == IF optional.has_value THEN optional.value ELSE fallback

TimestampPrinter_Print_Appended(printedLines, event, TimeFormat, Prefix) ==
    LET timeline == Value_or(FormatTime(event.Time, TimeFormat), InvalidTimeText)
        prefixedTimeline == Prefix \o timeline
    IN  printedLines \o <<prefixedTimeline>>

\* TimestampPrinter::Print, after RealPrinter.Print(event) returned printedLines
TimestampPrinter_Print(printedLines, event, TimeFormat, Prefix) ==
    LET timeline == Value_or(FormatTime(event.Time, TimeFormat), InvalidTimeText)
        prefixedTimeline == Prefix \o timeline
    IN  <<prefixedTimeline>> \o printedLines

\* LocationPrinter.hpp: DefaultLocationPrefix
DefaultLocationPrefix == <<"L", "o", "c", "a", "t", "i", "o", "n", ":", " ">>

\* what std::source_location reports for the two call sites
SourceLocationFields ==
    ("main.cpp(1)" :> [file_name |-> "main.cpp", line |-> "1", column |-> "5",
                       function_name |-> "main"]) @@
    ("util.cpp(7)" :> [file_name |-> "util.cpp", line |-> "7", column |-> "9",
                       function_name |-> "util"])

\* LocationPrinter.hpp: DefaultSourceLocationFormatter
DefaultSourceLocationFormatter(location) ==
    LET l == SourceLocationFields[location]
    IN  <<l.file_name, "(", l.line, ",", " ", l.column, ")", ":", " ", l.function_name>>

\* a formatter of the caller's: the file name alone
FileNameFormatter(location) == <<SourceLocationFields[location].file_name>>

InvalidLocationText ==
    <<"<", "I", "n", "v", "a", "l", "i", "d", " ",
      "L", "o", "c", "a", "t", "i", "o", "n", ">">>

\* the result of FormatLocation: an optional Line, or an exception on its way out
Formatted(optional) == [thrown |-> FALSE, has_value |-> optional.has_value,
                        value |-> optional.value]
FormatterThrew == [thrown |-> TRUE, has_value |-> FALSE, value |-> <<>>]

\* LocationPrinter::FormatLocation; the formatter is an empty std::function
\* ("nullptr"), DefaultSourceLocationFormatter ("default"), or a callable of the
\* caller's that returns a text ("file_name") or throws ("throwing")
FormatLocation(location, SourceLocationFormatter) ==
    IF SourceLocationFormatter = "nullptr" THEN Formatted(NullOpt)
    ELSE IF SourceLocationFormatter = "default"
    THEN Formatted(Some(DefaultSourceLocationFormatter(location)))
    ELSE IF SourceLocationFormatter = "file_name"
    THEN Formatted(Some(FileNameFormatter(location)))
    ELSE FormatterThrew

LocationPrinter_Print_Appended(printedLines, event, SourceLocationFormatter, Prefix) ==
    LET formatted == FormatLocation(event.SourceLocation, SourceLocationFormatter) IN
    IF formatted.thrown THEN Thrown
    ELSE LET locationLine == Value_or(formatted, InvalidLocationText)
             prefixedLocationLine == Prefix \o locationLine
         IN  Returned(printedLines \o <<prefixedLocationLine>>)

\* LocationPrinter::Print, after RealPrinter.Print(event) returned printedLines
LocationPrinter_Print(printedLines, event, SourceLocationFormatter, Prefix) ==
    LET formatted == FormatLocation(event.SourceLocation, SourceLocationFormatter) IN
    IF formatted.thrown THEN Thrown
    ELSE LET locationLine == Value_or(formatted, InvalidLocationText)
             prefixedLocationLine == Prefix \o locationLine
         IN  Returned(<<prefixedLocationLine>> \o printedLines)

\* ColoredPrinter.hpp: the escape sequence L"\x1B[38;5;<code>m", and resetColor
EscapeColor(code) == <<"ESC", "[", "3", "8", ";", "5", ";", code, "m">>
resetColor == <<"ESC", "[", "0", "m">>

\* ColoredPrinter.hpp: DefaultSeverityColors
DefaultSeverityColors ==
    (Trace :> Some(EscapeColor("244"))) @@
    (Debug :> NullOpt) @@
    (Info :> Some(EscapeColor("12"))) @@
    (Warning :> Some(EscapeColor("208"))) @@
    (Error :> Some(EscapeColor("196"))) @@
    (Fatal :> Some(EscapeColor("199")))

\* ColoredPrinter::GetColorForSeverity
GetColorForSeverity(SeverityColors, severity) ==
    IF severity \in DOMAIN SeverityColors THEN SeverityColors[severity] ELSE NullOpt

Colorize_NoReset(line, color) == color \o line

\* ColoredPrinter::Colorize
Colorize(line, color) == color \o line \o resetColor

\* ColoredPrinter::Print, after RealPrinter.Print(event) returned printedLines
ColoredPrinter_Print(printedLines, event, SeverityColors) ==
    LET color == GetColorForSeverity(SeverityColors, event.Severity) IN
    IF ~color.has_value THEN printedLines
    ELSE [i \in 1..Len(printedLines) |-> Colorize(printedLines[i], color.value)]

\* LogFmtPrinter::DefaultSeverityPrefixes
LogFmtDefaultSeverityPrefixes ==
    (Trace :> Some(<<"t", "r", "a", "c", "e">>)) @@
    (Debug :> Some(<<"d", "e", "b", "u", "g">>)) @@
    (Info :> Some(<<"i", "n", "f", "o">>)) @@
    (Warning :> Some(<<"w", "a", "r", "n", "i", "n", "g">>)) @@
    (Error :> Some(<<"e", "r", "r", "o", "r">>)) @@
    (Fatal :> Some(<<"f", "a", "t", "a", "l">>))

\* LogFmtPrinter::GenerateLevel
GenerateLevel(SeverityPrefixes, severity) ==
    IF severity \in DOMAIN SeverityPrefixes /\ SeverityPrefixes[severity].has_value
    THEN Some(<<"l", "e", "v", "e", "l", "=">> \o SeverityPrefixes[severity].value)
    ELSE NullOpt

GenerateMessage_MessageKey(message) ==
    Some(<<"m", "e", "s", "s", "a", "g", "e", "=">> \o message.text)

\* LogFmtPrinter::GenerateMessage
GenerateMessage(message) ==
    IF message.kind = "Line"
    THEN Some(<<"m", "e", "s", "s", "a", "g", "e", "=">> \o message.text)
    ELSE Some(<<"e", "r", "r", "o", "r", "=">> \o message.text)

\* LogFmtPrinter::GenerateTime
GenerateTime(timePoint, TimeFormat) ==
    IF Localtime_s_Fails(timePoint) THEN NullOpt
    ELSE Some(<<"t", "i", "m", "e", "=">> \o Put_time(timePoint, TimeFormat))

\* LogFmtPrinter::Print, the loop over the collected fields from field i on
RECURSIVE LogFmt_JoinFrom(_, _)
LogFmt_JoinFrom(lines, i) ==
    IF i > Len(lines) THEN <<>>
    ELSE (IF i > 1 THEN <<SP>> ELSE <<>>) \o lines[i] \o LogFmt_JoinFrom(lines, i + 1)

\* LogFmtPrinter::Print
LogFmtPrinter_Print(event, SeverityPrefixes, TimeFormat) ==
    LET fields == <<GenerateLevel(SeverityPrefixes, event.Severity),
                    GenerateMessage(event.Message),
                    GenerateTime(event.Time, TimeFormat)>>
        engaged == SelectSeq(fields, LAMBDA f : f.has_value)
        lines == [i \in 1..Len(engaged) |-> engaged[i].value]
    IN  <<LogFmt_JoinFrom(lines, 1)>>

\* an invocation of Print on stage `depth`, made after the invocations `calls`
\* had come back, that came to `printed`: the event handed over and the outcome
\* are kept, in the order the invocations came back
Invoked(calls, printer, depth, event, printed) ==
    [crashed |-> printed.crashed, thrown |-> printed.thrown, lines |-> printed.lines,
     calls |-> calls \o <<[depth |-> depth, stage |-> printer.chain[depth],
                            event |-> event,
                            returned |-> ~(printed.crashed \/ printed.thrown),
                            lines |-> printed.lines]>>]

RealPrinter_Print_Twice(printed) == [printed EXCEPT !.calls = @ \o @]

\* auto printedLines = RealPrinter.Print(event) in a decorator's Print: the one
\* invocation of the stage below, which came to `printed`
RealPrinter_Print(printed) == printed

\* LogPrinter::Print on stage `depth` of the chain: a terminal printer renders
\* the event; a decorator calls its RealPrinter (stage depth - 1) first and
\* transforms what it returned
RECURSIVE ChainPrint(_, _, _, _)
ChainPrint(printer, depth, event, ub) ==
    IF printer.chain[depth] = "Message"
    THEN Invoked(<<>>, printer, depth, event, Returned(MessagePrinter_Print(event)))
    ELSE IF printer.chain[depth] = "LogFmt"
    THEN Invoked(<<>>, printer, depth, event,
                 Returned(LogFmtPrinter_Print(event, printer.LevelPrefixes,
                                              printer.LogFmtTimeFormat)))
    ELSE LET printed == RealPrinter_Print(ChainPrint(printer, depth - 1, event, ub)) IN
         Invoked(printed.calls, printer, depth, event,
             IF printed.crashed THEN Crashed
             ELSE IF printed.thrown THEN Thrown
             ELSE IF printer.chain[depth] = "Prefix"
             THEN PrefixPrinter_Print(printed.lines, event, printer.SeverityPrefixes,
                                      printer.LongestPrefixLength)
             ELSE IF printer.chain[depth] = "Timestamp"
             THEN Returned(TimestampPrinter_Print(printed.lines, event, printer.TimeFormat,
                                                  printer.TimePrefix))
             ELSE IF printer.chain[depth] = "Location"
             THEN LocationPrinter_Print(printed.lines, event, printer.SourceLocationFormatter,
                                        printer.LocationPrefix)
             ELSE IF printer.chain[depth] = "Colored"
             THEN Returned(ColoredPrinter_Print(printed.lines, event, printer.SeverityColors))
             ELSE BoxPrinter_Print(printed.lines, ub))

\* what the head stage's RealPrinter returned (no lines for a terminal printer)
InnerLines(printer, event, ub) ==
    IF Len(printer.chain) > 1
    THEN ChainPrint(printer, Len(printer.chain) - 1, event, ub).lines
    ELSE <<>>

InChain(printer, stage) == \E i \in 1..Len(printer.chain) : printer.chain[i] = stage

\* the events printed: every severity and message, at two call sites
PrinterEvents ==
    {e \in LogEvents(MaxMsgLen) : (e.Time = "t0") <=> (e.SourceLocation = "main.cpp(1)")}

InitPrinter ==
    /\ NDEBUG = FALSE
    /\ LogFilter = NoFilter
    /\ LogPrinter = NoPrinter
    /\ LogOutput = NoOutput
    /\ streams = <<>>
    /\ streamState = <<>>
    /\ deliveries = <<>>
    /\ printCalls = 0
    /\ outputCalls = 0
    /\ call \in {[NoCall EXCEPT !.event = e] : e \in PrinterEvents}
    /\ status = "ok"

\* Message(): MessagePrinter's constructor
MessageCtor ==
    /\ status = "ok" /\ call.op = "none"
    /\ LogPrinter.chain = <<>>
    /\ LogPrinter' = [NoPrinter EXCEPT !.chain = <<"Message">>]
    /\ call' = [call EXCEPT !.op = "MessagePrinter", !.outcome = "returned"]
    /\ UNCHANGED <<NDEBUG, streamState, LogFilter, LogOutput, streams, deliveries,
                   printCalls, outputCalls, status>>

\* printer >> Prefixed(severityPrefixes): PrefixPrinter's constructor
PrefixPrinterCtor(severityPrefixes) ==
    /\ status = "ok" /\ call.op # "Print"
    /\ LogPrinter.chain # <<>> /\ ~InChain(LogPrinter, "Prefix")
    /\ Len(LogPrinter.chain) <= MaxDecorators
    /\ \E ub \in UBOutcomes :
         LET longest == GetLongestPrefixLength(severityPrefixes, ub) IN
         IF longest.crashed
         THEN /\ status' = "crashed"
              /\ call' = [call EXCEPT !.op = "PrefixPrinter", !.outcome = "crashed",
                                      !.arg = severityPrefixes]
              /\ UNCHANGED LogPrinter
         ELSE /\ LogPrinter' = [LogPrinter EXCEPT !.chain = Append(@, "Prefix"),
                                                  !.SeverityPrefixes = severityPrefixes,
                                                  !.LongestPrefixLength = longest.value]
              /\ call' = [call EXCEPT !.op = "PrefixPrinter", !.outcome = "returned",
                                      !.arg = severityPrefixes]
              /\ UNCHANGED status
    /\ UNCHANGED <<NDEBUG, streamState, LogFilter, LogOutput, streams, deliveries,
                   printCalls, outputCalls>>

\* printer >> Boxed(): BoxPrinter's constructor
BoxPrinterCtor ==
    /\ status = "ok" /\ call.op # "Print"
    /\ LogPrinter.chain # <<>> /\ ~InChain(LogPrinter, "Box")
    /\ Len(LogPrinter.chain) <= MaxDecorators
    /\ LogPrinter' = [LogPrinter EXCEPT !.chain = Append(@, "Box")]
    /\ call' = [call EXCEPT !.op = "BoxPrinter", !.outcome = "returned", !.arg = <<>>]
    /\ UNCHANGED <<NDEBUG, streamState, LogFilter, LogOutput, streams, deliveries,
                   printCalls, outputCalls, status>>

\* a caller invokes Print(event) on the head of the chain
PrintCall ==
    /\ status = "ok" /\ call.op # "Print"
    /\ LogPrinter.chain # <<>>
    /\ \E ub \in UBOutcomes :
         LET printed == ChainPrint(LogPrinter, Len(LogPrinter.chain), call.event, ub) IN
         /\ call' = [call EXCEPT !.op = "Print", !.arg = <<>>,
                                 !.outcome = IF printed.crashed THEN "crashed"
                                             ELSE IF printed.thrown THEN "threw"
                                             ELSE "returned",
                                 !.inner = InnerLines(LogPrinter, call.event, ub),
                                 !.lines = printed.lines,
                                 !.calls = printed.calls]
         /\ status' = IF printed.crashed THEN "crashed" ELSE "ok"
    /\ UNCHANGED <<NDEBUG, streamState, LogFilter, LogPrinter, LogOutput, streams, deliveries,
                   printCalls, outputCalls>>

NextPrinter ==
    \/ MessageCtor
    \/ \E severityPrefixes \in PrefixMaps : PrefixPrinterCtor(severityPrefixes)
    \/ BoxPrinterCtor
    \/ PrintCall

SpecPrinter == InitPrinter /\ [][NextPrinter]_vars

\* the events the decorators print: every severity, an empty text, a two-line
\* text and a captured error, at a call site with a time that converts and at
\* one with a time that does not
DecoratorEvents ==
    {[Severity |-> sev, Message |-> m, Time |-> at[1], SourceLocation |-> at[2]] :
        sev \in Severity,
        m \in {TextMessage(<<>>), TextMessage(<<"a", NL, "a">>), ExceptionMessage(<<"x">>)},
        at \in {<<"t0", "main.cpp(1)">>, <<InvalidTime, "util.cpp(7)">>}}

\* the arguments of Timestamped(), Located(), Colored() and LogFmtPrinter()
TimestampConfigs ==
    {[TimeFormat |-> DefaultTimeFormat, Prefix |-> DefaultTimePrefix],
     [TimeFormat |-> LogFmtDefaultTimeFormat, Prefix |-> <<>>]}
LocationConfigs ==
    {[SourceLocationFormatter |-> "default", Prefix |-> DefaultLocationPrefix],
     [SourceLocationFormatter |-> "nullptr", Prefix |-> DefaultLocationPrefix],
     [SourceLocationFormatter |-> "file_name", Prefix |-> <<"@">>]}
ThrowingLocationConfigs ==
    {[SourceLocationFormatter |-> "throwing", Prefix |-> DefaultLocationPrefix]}
ColorMaps ==
    {DefaultSeverityColors,
     <<>>,
     (Debug :> Some(EscapeColor("46"))) @@ (Info :> NullOpt)}
LogFmtConfigs ==
    {[SeverityPrefixes |-> LogFmtDefaultSeverityPrefixes, TimeFormat |-> LogFmtDefaultTimeFormat],
     [SeverityPrefixes |-> (Info :> Some(<<"i">>)) @@ (Error :> NullOpt),
      TimeFormat |-> DefaultTimeFormat]}

InitDecorators ==
    /\ NDEBUG = FALSE
    /\ LogFilter = NoFilter
    /\ LogPrinter = NoPrinter
    /\ LogOutput = NoOutput
    /\ streams = <<>>
    /\ streamState = <<>>
    /\ deliveries = <<>>
    /\ printCalls = 0
    /\ outputCalls = 0
    /\ call \in {[NoCall EXCEPT !.event = e] : e \in DecoratorEvents}
    /\ status = "ok"

\* LogFmtPrinter's constructor
LogFmtCtor(severityPrefixes, timeFormat) ==
    /\ status = "ok" /\ call.op = "none"
    /\ LogPrinter.chain = <<>>
    /\ LogPrinter' = [NoPrinter EXCEPT !.chain = <<"LogFmt">>,
                                       !.LevelPrefixes = severityPrefixes,
                                       !.LogFmtTimeFormat = timeFormat]
    /\ call' = [call EXCEPT !.op = "LogFmtPrinter", !.outcome = "returned"]
    /\ UNCHANGED <<NDEBUG, streamState, LogFilter, LogOutput, streams, deliveries,
                   printCalls, outputCalls, status>>

\* printer >> Timestamped(timeFormat, timePrefix): TimestampPrinter's constructor
TimestampPrinterCtor(timeFormat, timePrefix) ==
    /\ status = "ok" /\ call.op # "Print"
    /\ LogPrinter.chain # <<>> /\ ~InChain(LogPrinter, "Timestamp")
    /\ Len(LogPrinter.chain) <= MaxDecorators
    /\ LogPrinter' = [LogPrinter EXCEPT !.chain = Append(@, "Timestamp"),
                                        !.TimeFormat = timeFormat,
                                        !.TimePrefix = timePrefix]
    /\ call' = [call EXCEPT !.op = "TimestampPrinter", !.outcome = "returned", !.arg = <<>>]
    /\ UNCHANGED <<NDEBUG, streamState, LogFilter, LogOutput, streams, deliveries,
                   printCalls, outputCalls, status>>

\* printer >> Located(sourceLocationFormatter, prefix): LocationPrinter's
\* constructor
LocationPrinterCtor(sourceLocationFormatter, prefix) ==
    /\ status = "ok" /\ call.op # "Print"
    /\ LogPrinter.chain # <<>> /\ ~InChain(LogPrinter, "Location")
    /\ Len(LogPrinter.chain) <= MaxDecorators
    /\ LogPrinter' = [LogPrinter EXCEPT !.chain = Append(@, "Location"),
                                        !.SourceLocationFormatter = sourceLocationFormatter,
                                        !.LocationPrefix = prefix]
    /\ call' = [call EXCEPT !.op = "LocationPrinter", !.outcome = "returned", !.arg = <<>>]
    /\ UNCHANGED <<NDEBUG, streamState, LogFilter, LogOutput, streams, deliveries,
                   printCalls, outputCalls, status>>

\* printer >> Colored(severityColors): ColoredPrinter's constructor
ColoredPrinterCtor(severityColors) ==
    /\ status = "ok" /\ call.op # "Print"
    /\ LogPrinter.chain # <<>> /\ ~InChain(LogPrinter, "Colored")
    /\ Len(LogPrinter.chain) <= MaxDecorators
    /\ LogPrinter' = [LogPrinter EXCEPT !.chain = Append(@, "Colored"),
                                        !.SeverityColors = severityColors]
    /\ call' = [call EXCEPT !.op = "ColoredPrinter", !.outcome = "returned", !.arg = <<>>]
    /\ UNCHANGED <<NDEBUG, streamState, LogFilter, LogOutput, streams, deliveries,
                   printCalls, outputCalls, status>>

NextDecorators ==
    \/ MessageCtor
    \/ \E c \in LogFmtConfigs : LogFmtCtor(c.SeverityPrefixes, c.TimeFormat)
    \/ \E c \in TimestampConfigs : TimestampPrinterCtor(c.TimeFormat, c.Prefix)
    \/ \E c \in LocationConfigs : LocationPrinterCtor(c.SourceLocationFormatter, c.Prefix)
    \/ \E severityColors \in ColorMaps : ColoredPrinterCtor(severityColors)
    \/ BoxPrinterCtor
    \/ PrintCall

SpecDecorators == InitDecorators /\ [][NextDecorators]_vars

\* the same with formatters that throw among the caller's
NextFormatters ==
    \/ MessageCtor
    \/ \E c \in TimestampConfigs : TimestampPrinterCtor(c.TimeFormat, c.Prefix)
    \/ \E c \in LocationConfigs \cup ThrowingLocationConfigs :
           LocationPrinterCtor(c.SourceLocationFormatter, c.Prefix)
    \/ BoxPrinterCtor
    \/ PrintCall

SpecFormatters == InitDecorators /\ [][NextFormatters]_vars

HeadStage(printer) == printer.chain[Len(printer.chain)]

Printed(stage) ==
    /\ call.op = "Print"
    /\ LogPrinter.chain # <<>>
    /\ HeadStage(LogPrinter) = stage

Count(s, ch) == Cardinality({i \in 1..Len(s) : s[i] = ch})

RECURSIVE Join(_, _)
Join(lines, delim) ==
    IF lines = <<>> THEN <<>>
    ELSE IF Len(lines) = 1 THEN lines[1]
    ELSE lines[1] \o <<delim>> \o Join(Tail(lines), delim)

\* C5 (as claimed): a text message with k line breaks, the empty message
\* included, prints as exactly k+1 lines, none holding a line break, and joining
\* them with line breaks gives the message back.
C5_MessageSplit ==
    (Printed("Message") /\ call.event.Message.kind = "Line") =>
        /\ call.outcome = "returned"
        /\ Len(call.lines) = Count(call.event.Message.text, NL) + 1
        /\ \A i \in 1..Len(call.lines) : Count(call.lines[i], NL) = 0
        /\ Join(call.lines, NL) = call.event.Message.text

\* the same for the messages that hold at least one character
MessageSplit_NonEmpty ==
    (Printed("Message") /\ call.event.Message.kind = "Line"
        /\ call.event.Message.text # <<>>) =>
        /\ call.outcome = "returned"
        /\ Len(call.lines) = Count(call.event.Message.text, NL) + 1
        /\ \A i \in 1..Len(call.lines) : Count(call.lines[i], NL) = 0
        /\ Join(call.lines, NL) = call.event.Message.text

Configured(map) == {s \in DOMAIN map : map[s].has_value}

\* the length of the longest configured prefix
LongestConfigured(map) ==
    CHOOSE n \in {Len(map[s].value) : s \in Configured(map)} :
        \A s \in Configured(map) : Len(map[s].value) <= n

\* line = prefix, then spaces up to column `width`, then `rest`
Prepended(line, prefix, width, rest) ==
    /\ Len(line) = width + Len(rest)
    /\ \A j \in 1..Len(prefix) : line[j] = prefix[j]
    /\ \A j \in (Len(prefix) + 1)..width : line[j] = SP
    /\ \A j \in 1..Len(rest) : line[width + j] = rest[j]

\* C6: for every severity with a configured prefix, PrefixPrinter prepends to
\* every inner line the prefix right-padded with spaces to the length of the
\* longest configured prefix (so the prepended text is equally long for any two
\* configured severities), keeping the inner lines' count and order.
C6_PrefixWidth ==
    (/\ Printed("Prefix") /\ call.outcome = "returned"
     /\ call.event.Severity \in Configured(LogPrinter.SeverityPrefixes)) =>
        LET map == LogPrinter.SeverityPrefixes
            prefix == map[call.event.Severity].value
        IN  /\ Len(prefix) <= LongestConfigured(map)
            /\ Len(call.lines) = Len(call.inner)
            /\ \A i \in 1..Len(call.lines) :
                 Prepended(call.lines[i], prefix, LongestConfigured(map), call.inner[i])

\* two inner lines were prefixed for a severity whose prefix is shorter than
\* another configured one
C6_Witness ==
    /\ Printed("Prefix") /\ call.outcome = "returned"
    /\ LogPrinter.chain = <<"Message", "Prefix">>
    /\ call.event.Severity = Trace
    /\ Configured(LogPrinter.SeverityPrefixes) = {Trace, Info}
    /\ LogPrinter.SeverityPrefixes[Trace].value = <<"T">>
    /\ LogPrinter.SeverityPrefixes[Info].value = <<"W", "W">>
    /\ call.inner = << <<"a">>, <<"a">> >>
    /\ call.lines = << <<"T", SP, "a">>, <<"T", SP, "a">> >>

\* C7 (as claimed): for every prefix mapping that omits entries, the mapping
\* with no entries included, constructing the PrefixPrinter succeeds, and for an
\* event whose severity has no configured prefix Print returns exactly the
\* inner printer's lines.
C7_AbsentPrefixPassthrough ==
    /\ call.op = "PrefixPrinter" => call.outcome = "returned"
    /\ (/\ Printed("Prefix") /\ call.outcome = "returned"
        /\ call.event.Severity \notin Configured(LogPrinter.SeverityPrefixes)) =>
            call.lines = call.inner

\* the passthrough alone, for the printers whose construction returned
AbsentPrefixPassthrough_Constructed ==
    (/\ Printed("Prefix") /\ call.outcome = "returned"
     /\ call.event.Severity \notin Configured(LogPrinter.SeverityPrefixes)) =>
         call.lines = call.inner

IsFill(line, ch) == \A j \in 1..Len(line) : line[j] = ch

\* C8: for N >= 1 inner lines BoxPrinter returns N+2 lines: a top border, each
\* inner line right-padded with spaces to the longest inner line and framed by
\* one vertical border character on each side, a bottom border; every line
\* is (longest inner length + 2) long.
C8_BoxShape ==
    (Printed("Box") /\ call.inner # <<>>) =>
        LET n == Len(call.inner)
            width == CHOOSE w \in {Len(call.inner[i]) : i \in 1..n} :
                         \A i \in 1..n : Len(call.inner[i]) <= w
        IN  /\ call.outcome = "returned"
            /\ Len(call.lines) = n + 2
            /\ \A i \in 1..(n + 2) : Len(call.lines[i]) = width + 2
            /\ call.lines[1][1] = TopLeft /\ call.lines[1][width + 2] = TopRight
            /\ IsFill(SubSeq(call.lines[1], 2, width + 1), Horizontal)
            /\ call.lines[n + 2][1] = BottomLeft
            /\ call.lines[n + 2][width + 2] = BottomRight
            /\ IsFill(SubSeq(call.lines[n + 2], 2, width + 1), Horizontal)
            /\ \A i \in 1..n :
                 /\ call.lines[i + 1][1] = Vertical
                 /\ call.lines[i + 1][width + 2] = Vertical
                 /\ Prepended(SubSeq(call.lines[i + 1], 2, width + 1),
                              call.inner[i], width, <<>>)

\* three inner lines of lengths 0, 0 and 1 were boxed
C8_Witness ==
    /\ Printed("Box") /\ call.outcome = "returned"
    /\ call.inner = << <<>>, <<>>, <<"a">> >>
    /\ call.lines = << <<TopLeft, Horizontal, TopRight>>,
                       <<Vertical, SP, Vertical>>,
                       <<Vertical, SP, Vertical>>,
                       <<Vertical, "a", Vertical>>,
                       <<BottomLeft, Horizontal, BottomRight>> >>

\* C9 (as claimed): when the inner printer returns no lines, BoxPrinter::Print
\* returns that empty sequence unchanged, with no border lines and no
\* maximum-of-nothing evaluated.
C9_EmptyPassthrough ==
    (Printed("Box") /\ call.inner = <<>>) =>
        /\ call.outcome = "returned"
        /\ call.lines = <<>>

----------------------------------------------------------------------------
(* Outputs *)

\* a null std::unique_ptr<LogOutput>
Null == 0

\* the sub-outputs a MultiOutput can be given: StreamOutput number i writes
\* to stream number i
OutputIds == 1..MaxOutputs

\* LogOutput.hpp: struct OutputEvent
OutputEventOf(lines, event) == [Lines |-> lines, Origin |-> event]

\* the conditions of a std::wostream: "good"; "fail", an error bit is set and
\* operator<< does nothing; "throw", the same with the bit in the stream's
\* exceptions() mask, so that operator<< throws std::ios_base::failure
StreamStates == {"good", "fail", "throw"}
GoodStreams == [id \in OutputIds |-> "good"]

\* the state an Output call works on; thrown: an exception is on its way out
Sinks(s, d) ==
    [crashed |-> FALSE, thrown |-> FALSE, streams |-> s, state |-> streamState,
     deliveries |-> d]

StreamOutput_Output_FirstLine(id, event, sinks) ==
    [sinks EXCEPT !.streams[id] = @ \o (IF event.Lines = <<>> THEN <<>>
                                         ELSE <<event.Lines[1]>>),
                  !.deliveries = Append(@, [to |-> id, event |-> event])]

StreamOutput_Output_Prepended(id, event, sinks) ==
    LET handed == [sinks EXCEPT !.deliveries = Append(@, [to |-> id, event |-> event])]
    IN  IF event.Lines = <<>> \/ sinks.state[id] = "fail" THEN handed
        ELSE IF sinks.state[id] = "throw" THEN [handed EXCEPT !.thrown = TRUE]
        ELSE [handed EXCEPT !.streams[id] = event.Lines \o @]

\* StreamOutput::Output: every line of the event, each followed by std::endl;
\* the first operator<< on a stream in condition "throw" throws, on a stream in
\* condition "fail" every operator<< returns without writing
StreamOutput_Output(id, event, sinks) ==
    LET handed == [sinks EXCEPT !.deliveries = Append(@, [to |-> id, event |-> event])]
    IN  IF event.Lines = <<>> \/ sinks.state[id] = "fail" THEN handed
        ELSE IF sinks.state[id] = "throw" THEN [handed EXCEPT !.thrown = TRUE]
        ELSE [handed EXCEPT !.streams[id] = @ \o event.Lines]

RECURSIVE MultiOutput_Output_StopAtFailed(_, _, _, _)
MultiOutput_Output_StopAtFailed(m_Outputs, i, event, sinks) ==
    IF i > Len(m_Outputs) THEN sinks
    ELSE IF m_Outputs[i] = Null THEN [sinks EXCEPT !.crashed = TRUE]
    ELSE LET handed == StreamOutput_Output(m_Outputs[i], event, sinks)
         IN  IF handed.thrown \/ sinks.state[m_Outputs[i]] # "good" THEN handed
             ELSE MultiOutput_Output_StopAtFailed(m_Outputs, i + 1, event, handed)

NormalizeOutputs_Keep(outputs) == outputs

\* MultiOutput::NormalizeOutputs: the non-null entries, in order
RECURSIVE NormalizeOutputs(_)
NormalizeOutputs(outputs) ==
    IF outputs = <<>> THEN <<>>
    ELSE IF Head(outputs) # Null
         THEN <<Head(outputs)>> \o NormalizeOutputs(Tail(outputs))
         ELSE NormalizeOutputs(Tail(outputs))

\* MultiOutput::Output from entry i on: output->Output(event) on each entry;
\* calling through a null pointer brings the process down, and an exception a
\* sub-output throws leaves the loop, which has no handler
RECURSIVE MultiOutput_Output(_, _, _, _)
MultiOutput_Output(m_Outputs, i, event, sinks) ==
    IF i > Len(m_Outputs) THEN sinks
    ELSE IF m_Outputs[i] = Null THEN [sinks EXCEPT !.crashed = TRUE]
    ELSE LET handed == StreamOutput_Output(m_Outputs[i], event, sinks)
         IN  IF handed.thrown THEN handed
             ELSE MultiOutput_Output(m_Outputs, i + 1, event, handed)

\* LogOutput::Output, dispatched on the output's type
LogOutput_Output(output, event, sinks) ==
    IF output.kind = "Stream" THEN StreamOutput_Output(output.stream, event, sinks)
    ELSE MultiOutput_Output(output.m_Outputs, 1, event, sinks)

\* StreamOutput::StreamOutput
NewStreamOutput(id) == [NoOutput EXCEPT !.kind = "Stream", !.stream = id]

\* MultiOutput::MultiOutput
NewMultiOutput(outputs) ==
    [NoOutput EXCEPT !.kind = "Multi", !.outputs = outputs,
                     !.m_Outputs = NormalizeOutputs(outputs)]

\* the lists a MultiOutput is constructed from: each sub-output is owned by one
\* unique_ptr, so it appears at most once; null entries appear anywhere
OutputLists ==
    {l \in UNION {[1..n -> OutputIds \cup {Null}] : n \in 0..MaxOutputs} :
        \A i, j \in 1..Len(l) : (i # j /\ l[i] # Null) => l[i] # l[j]}

WriteEvent(severity, text) ==
    [Severity |-> severity, Message |-> TextMessage(text),
     Time |-> "t0", SourceLocation |-> "main.cpp(1)"]

\* the OutputEvents written: no line, one line, three lines
WrittenEvents ==
    {OutputEventOf(<<>>, WriteEvent(Info, <<>>)),
     OutputEventOf(<< <<"a">> >>, WriteEvent(Error, <<"a">>)),
     OutputEventOf(<< <<"a">>, <<>>, <<"a">> >>, WriteEvent(Info, <<"a", NL, NL, "a">>))}

EmptyStreams == [id \in OutputIds |-> <<>>]

InitOutput ==
    /\ NDEBUG = FALSE
    /\ LogFilter = NoFilter
    /\ LogPrinter = NoPrinter
    /\ LogOutput = NoOutput
    /\ streams = EmptyStreams
    /\ streamState = GoodStreams
    /\ deliveries = <<>>
    /\ printCalls = 0
    /\ outputCalls = 0
    /\ call = NoCall
    /\ status = "ok"

\* StreamOutput's constructor
StreamOutputCtor(id) ==
    /\ status = "ok" /\ LogOutput.kind = "none"
    /\ LogOutput' = NewStreamOutput(id)
    /\ call' = [NoCall EXCEPT !.op = "StreamOutput", !.outcome = "returned"]
    /\ UNCHANGED <<NDEBUG, streamState, LogFilter, LogPrinter, streams, deliveries,
                   printCalls, outputCalls, status>>

\* MultiOutput's constructor
MultiOutputCtor(outputs) ==
    /\ status = "ok" /\ LogOutput.kind = "none"
    /\ LogOutput' = NewMultiOutput(outputs)
    /\ call' = [NoCall EXCEPT !.op = "MultiOutput", !.outcome = "returned"]
    /\ UNCHANGED <<NDEBUG, streamState, LogFilter, LogPrinter, streams, deliveries,
                   printCalls, outputCalls, status>>

\* a caller invokes Output(event) on the output
OutputCall(event) ==
    /\ status = "ok" /\ LogOutput.kind # "none"
    /\ outputCalls < MaxWrites
    /\ LET sinks == LogOutput_Output(LogOutput, event, Sinks(streams, deliveries)) IN
       /\ streams' = sinks.streams
       /\ deliveries' = sinks.deliveries
       /\ status' = IF sinks.crashed THEN "crashed" ELSE "ok"
       /\ call' = [NoCall EXCEPT !.op = "Output", !.arg = event,
                       !.outcome = IF sinks.crashed THEN "crashed"
                                   ELSE IF sinks.thrown THEN "threw" ELSE "returned"]
    /\ outputCalls' = outputCalls + 1
    /\ UNCHANGED <<NDEBUG, streamState, LogFilter, LogPrinter, LogOutput, printCalls>>

NextOutput ==
    \/ \E id \in OutputIds : StreamOutputCtor(id)
    \/ \E outputs \in OutputLists : MultiOutputCtor(outputs)
    \/ \E event \in WrittenEvents : OutputCall(event)

SpecOutput == InitOutput /\ [][NextOutput]_vars

\* the registered sub-outputs: the constructor's list with the nulls removed
Registered(outputs) == SelectSeq(outputs, LAMBDA o : o # Null)

\* what sub-output id has been handed so far, in order
ReceivedBy(id) ==
    LET mine == SelectSeq(deliveries, LAMBDA d : d.to = id)
    IN  [k \in 1..Len(mine) |-> mine[k].event]

C10_NoNullNoLoss ==
    LogOutput.kind = "Multi" =>
        /\ status = "ok"
        /\ LogOutput.m_Outputs = NewMultiOutput(Registered(LogOutput.outputs)).m_Outputs
        /\ \A id \in OutputIds :
             Len(ReceivedBy(id)) =
                 IF \E i \in 1..Len(LogOutput.outputs) : LogOutput.outputs[i] = id
                 THEN outputCalls ELSE 0
        /\ \A i, j \in 1..Len(LogOutput.outputs) :
             (LogOutput.outputs[i] # Null /\ LogOutput.outputs[j] # Null) =>
                 ReceivedBy(LogOutput.outputs[i]) = ReceivedBy(LogOutput.outputs[j])

C10_OneWrite ==
    (LogOutput.kind = "Multi" /\ call'.op = "Output" /\ outputCalls' = outputCalls + 1) =>
        LET registered == Registered(LogOutput.outputs) IN
        /\ call'.outcome = "returned"
        /\ deliveries' = deliveries \o
               [k \in 1..Len(registered) |-> [to |-> registered[k], event |-> call'.arg]]

\* C10: a MultiOutput constructed from a list with null entries behaves like
\* one constructed from the list without them: each Output call hands the same
\* OutputEvent once to every non-null sub-output, in registration order, no null
\* entry is called through, and all non-null sub-outputs have received the same
\* sequence of events.
C10_MultiOutputNulls == []C10_NoNullNoLoss /\ [][C10_OneWrite]_vars

\* a MultiOutput built from [2, null, 1] has delivered two events, to 2 then 1
C10_Witness ==
    /\ LogOutput.kind = "Multi"
    /\ LogOutput.outputs = <<2, Null, 1>>
    /\ outputCalls = 2
    /\ Len(deliveries) = 4
    /\ deliveries[3].to = 2 /\ deliveries[4].to = 1
    /\ deliveries[1].event # deliveries[3].event
    /\ status = "ok"

\* the conditions the streams of a fan-out are in: all good, or one of them
\* failed, silently or with exceptions enabled
DegenerateStreams ==
    {GoodStreams} \cup
    {[GoodStreams EXCEPT ![id] = c] : id \in OutputIds, c \in StreamStates \ {"good"}}

InitFanOut ==
    /\ NDEBUG = FALSE
    /\ LogFilter = NoFilter
    /\ LogPrinter = NoPrinter
    /\ LogOutput = NoOutput
    /\ streams = EmptyStreams
    /\ streamState \in DegenerateStreams
    /\ deliveries = <<>>
    /\ printCalls = 0
    /\ outputCalls = 0
    /\ call = NoCall
    /\ status = "ok"

SpecFanOut == InitFanOut /\ [][NextOutput]_vars

\* C11 (as claimed): whatever an earlier sub-output's write does, every
\* registered sub-output of a MultiOutput has received the event of every
\* Output call made on it.
C11_EveryLaterReceives ==
    LogOutput.kind = "Multi" =>
        \A i \in 1..Len(LogOutput.m_Outputs) :
            Len(ReceivedBy(LogOutput.m_Outputs[i])) = outputCalls

\* the entries of m_Outputs an Output call reaches: all of them, or those up to
\* the first whose stream throws on the write of the event's first line
Reached(m_Outputs, event) ==
    LET throwing == {i \in 1..Len(m_Outputs) :
                        streamState[m_Outputs[i]] = "throw" /\ event.Lines # <<>>}
    IN  IF throwing = {} THEN Len(m_Outputs)
        ELSE CHOOSE i \in throwing : \A j \in throwing : i <= j

C11_OneWrite ==
    (LogOutput.kind = "Multi" /\ call'.op = "Output" /\ outputCalls' = outputCalls + 1) =>
        LET m_Outputs == LogOutput.m_Outputs
            reached == Reached(m_Outputs, call'.arg)
        IN  /\ deliveries' = deliveries \o
                   [k \in 1..reached |-> [to |-> m_Outputs[k], event |-> call'.arg]]
            /\ call'.outcome = IF reached = Len(m_Outputs)
                                  /\ (reached = 0 \/ streamState[m_Outputs[reached]] # "throw"
                                      \/ call'.arg.Lines = <<>>)
                               THEN "returned" ELSE "threw"
            /\ \A id \in OutputIds :
                 streams'[id] =
                     IF streamState[id] = "good"
                        /\ \E k \in 1..reached : m_Outputs[k] = id
                     THEN streams[id] \o call'.arg.Lines ELSE streams[id]

\* C11 (amended): one Output call on a MultiOutput hands the event to its
\* sub-outputs in order and goes on past a sub-output whose write does nothing
\* (a stream in a failed condition, an event without lines); it stops at the
\* first sub-output whose write throws, the exception leaves Output, and the
\* sub-outputs after that one do not receive the event.
C11_ContinuesUnlessThrown == [][C11_OneWrite]_vars

\* the first stream had failed silently, and the second still got the lines
C11_Witness ==
    /\ LogOutput.kind = "Multi"
    /\ LogOutput.m_Outputs = <<1, 2>>
    /\ streamState[1] = "fail"
    /\ call.op = "Output" /\ call.arg.Lines # <<>>
    /\ streams[1] = <<>>
    /\ streams[2] = call.arg.Lines
    /\ Len(deliveries) = 2

----------------------------------------------------------------------------
(* DefaultLogger *)

\* LogFilter::Filter, dispatched on the filter's type
LogFilter_Filter(filter, ndebug, event) ==
    IF filter.kind = "Production"
    THEN ProductionFilter_Filter(event, filter.MinSeverity)
    ELSE DevelopmentFilter_Filter(ndebug, event, filter.MinSeverity)

\* the state a Log call works on: the sinks, the calls made so far, and for
\* this call the collaborator calls in order and the OutputEvent handed over
LogState(s, d, p, o) ==
    [crashed |-> FALSE, thrown |-> FALSE, streams |-> s, deliveries |-> d, printCalls |-> p,
     outputCalls |-> o, steps |-> <<>>, calls |-> <<>>,
     handed |-> OutputEventOf(<<>>, NoEvent)]

DefaultLogger_Log_PrintFirst(filter, printer, output, ndebug, event, ub, st) ==
    LET printed == ChainPrint(printer, Len(printer.chain), event, ub)
        rendered == [st EXCEPT !.steps = <<"Print", "Filter">>,
                               !.printCalls = @ + 1,
                               !.calls = printed.calls,
                               !.thrown = printed.thrown,
                               !.crashed = printed.crashed]
    IN  IF printed.crashed \/ printed.thrown \/ ~LogFilter_Filter(filter, ndebug, event)
        THEN rendered
        ELSE LET outputEvent == OutputEventOf(printed.lines, event)
                 sinks == LogOutput_Output(output, outputEvent,
                                           Sinks(st.streams, st.deliveries))
             IN  [rendered EXCEPT !.steps = <<"Print", "Filter", "Output">>,
                                  !.outputCalls = @ + 1,
                                  !.handed = outputEvent,
                                  !.crashed = sinks.crashed,
                                  !.thrown = sinks.thrown,
                                  !.streams = sinks.streams,
                                  !.deliveries = sinks.deliveries]

\* DefaultLogger::Log
DefaultLogger_Log(filter, printer, output, ndebug, event, ub, st) ==
    IF ~LogFilter_Filter(filter, ndebug, event)
    THEN [st EXCEPT !.steps = <<"Filter">>]
    ELSE LET printed == ChainPrint(printer, Len(printer.chain), event, ub)
             rendered == [st EXCEPT !.steps = <<"Filter", "Print">>,
                                    !.printCalls = @ + 1,
                                    !.calls = printed.calls,
                                    !.thrown = printed.thrown,
                                    !.crashed = printed.crashed]
         \* an exception out of Print leaves Log before Output is called
         IN  IF printed.crashed \/ printed.thrown THEN rendered
             ELSE LET outputEvent == OutputEventOf(printed.lines, event)
                      sinks == LogOutput_Output(output, outputEvent,
                                                Sinks(st.streams, st.deliveries))
                  IN  [rendered EXCEPT !.steps = <<"Filter", "Print", "Output">>,
                                       !.outputCalls = @ + 1,
                                       !.handed = outputEvent,
                                       !.crashed = sinks.crashed,
                                       !.thrown = sinks.thrown,
                                       !.streams = sinks.streams,
                                       !.deliveries = sinks.deliveries]

\* a printer chain built stage by stage, each decorator over the one before
BuildPrinter(chain, severityPrefixes) ==
    [NoPrinter EXCEPT
        !.chain = chain,
        !.SeverityPrefixes = IF \E i \in 1..Len(chain) : chain[i] = "Prefix"
                             THEN severityPrefixes ELSE <<>>,
        !.LongestPrefixLength =
            IF \E i \in 1..Len(chain) : chain[i] = "Prefix"
            THEN GetLongestPrefixLength(severityPrefixes, [crash |-> FALSE, value |-> 0]).value
            ELSE 0]

\* the loggers: a threshold or a mode-gated filter (the latter in debug builds,
\* the only ones its header compiles in), a message printer alone, prefixed,
\* boxed or both, a stream output or a fan-out over two streams and a null
LoggerFilters ==
    {NewFilter("Production", m) : m \in {Trace, Info, Fatal}}
        \cup {NewFilter("Development", Info)}
LoggerPrinters ==
    {BuildPrinter(c, DefaultSeverityPrefixes) :
        c \in {<<"Message">>, <<"Message", "Prefix">>, <<"Message", "Box">>,
               <<"Message", "Prefix", "Box">>}}
LoggerOutputs == {NewStreamOutput(1), NewMultiOutput(<<1, Null, 2>>)}

Hello == <<"H", "e", "l", "l", "o">>
Ignored == <<"i", "g", "n", "o", "r", "e", "d">>

\* the events logged: three severities with an empty text, a two-line text and
\* a captured error, and the two calls Info("Hello") and Trace("ignored")
LoggerEvents ==
    {[Severity |-> sev, Message |-> m, Time |-> "t1", SourceLocation |-> "util.cpp(7)"] :
        sev \in {Trace, Info, Error},
        m \in {TextMessage(<<>>), TextMessage(<<"a", NL, "a">>), ExceptionMessage(<<"x">>)}}
    \cup
    {[Severity |-> Info, Message |-> TextMessage(Hello),
      Time |-> "t1", SourceLocation |-> "util.cpp(7)"],
     [Severity |-> Trace, Message |-> TextMessage(Ignored),
      Time |-> "t1", SourceLocation |-> "util.cpp(7)"]}

Init ==
    /\ NDEBUG \in BOOLEAN
    /\ LogFilter \in {f \in LoggerFilters :
                         f.kind = "Development" => DevelopmentFilter_WellFormed(NDEBUG)}
    /\ LogPrinter \in LoggerPrinters
    /\ LogOutput \in LoggerOutputs
    /\ streams = EmptyStreams
    /\ streamState = GoodStreams
    /\ deliveries = <<>>
    /\ printCalls = 0
    /\ outputCalls = 0
    /\ call = NoCall
    /\ status = "ok"

\* the sinks, the counts of calls and the record of the call once
\* DefaultLogger::Log on `event` came to `st`
Logged(event, st) ==
    /\ streams' = st.streams
    /\ deliveries' = st.deliveries
    /\ printCalls' = st.printCalls
    /\ outputCalls' = st.outputCalls
    /\ status' = IF st.crashed THEN "crashed" ELSE "ok"
    /\ call' = [op |-> "Log", event |-> event,
                outcome |-> IF st.crashed THEN "crashed"
                            ELSE IF st.thrown THEN "threw" ELSE "returned",
                result |-> LogFilter_Filter(LogFilter, NDEBUG, event),
                arg |-> st.handed,
                inner |-> st.steps,
                lines |-> st.handed.Lines,
                calls |-> st.calls]

Log_RaisesThreshold(event) ==
    /\ status = "ok"
    /\ printCalls < MaxLogCalls
    /\ \E ub \in UBOutcomes :
         Logged(event, DefaultLogger_Log(LogFilter, LogPrinter, LogOutput, NDEBUG, event, ub,
                           LogState(streams, deliveries, printCalls, outputCalls)))
    /\ LogFilter' = [LogFilter EXCEPT !.MinSeverity = event.Severity]
    /\ UNCHANGED <<NDEBUG, streamState, LogPrinter, LogOutput>>

\* a caller invokes Log(event) on the logger
Log(event) ==
    /\ status = "ok"
    /\ printCalls < MaxLogCalls
    /\ \E ub \in UBOutcomes :
         Logged(event, DefaultLogger_Log(LogFilter, LogPrinter, LogOutput, NDEBUG, event, ub,
                           LogState(streams, deliveries, printCalls, outputCalls)))
    /\ UNCHANGED <<NDEBUG, streamState, LogFilter, LogPrinter, LogOutput>>

Next == \E event \in LoggerEvents : Log(event)

Spec == Init /\ [][Next]_vars

C1_RejectedUntouched ==
    (call'.op = "Log" /\ ~call'.result) =>
        /\ call'.inner = <<"Filter">>
        /\ call'.outcome = "returned"
        /\ printCalls' = printCalls
        /\ outputCalls' = outputCalls
        /\ streams' = streams
        /\ deliveries' = deliveries

\* C1: when the logger's filter rejects the event, Log makes no printer call and
\* no output call: the numbers of Print and Output calls and the contents of
\* every sink are after the call what they were before it.
C1_RejectedNoWork == [][C1_RejectedUntouched]_vars

\* an event was rejected by a logger that had already written an accepted one
C1_Witness ==
    /\ call.op = "Log" /\ ~call.result
    /\ call.event.Severity = Trace /\ LogFilter.MinSeverity = Info
    /\ call.inner = <<"Filter">>
    /\ printCalls = 1 /\ outputCalls = 1
    /\ streams[1] # <<>>

\* C2 (as claimed): for every event the filter accepts, one Log call calls the
\* chain's Print once and then the output's Output once, and the OutputEvent
\* handed over holds the lines Print returned and the event given to Log.
C2_AcceptedPrintedThenWritten ==
    (call.op = "Log" /\ call.result) =>
        /\ call.inner = <<"Filter", "Print", "Output">>
        /\ call.outcome = "returned"
        /\ call.arg.Origin = call.event
        /\ \E ub \in UBOutcomes :
             LET printed == ChainPrint(LogPrinter, Len(LogPrinter.chain), call.event, ub)
             IN  ~printed.crashed /\ call.arg.Lines = printed.lines

\* the same for the calls whose Print returned
AcceptedPrintedThenWritten_Returned ==
    (call.op = "Log" /\ call.result /\ call.outcome = "returned") =>
        /\ call.inner = <<"Filter", "Print", "Output">>
        /\ call.arg.Origin = call.event
        /\ \E ub \in UBOutcomes :
             LET printed == ChainPrint(LogPrinter, Len(LogPrinter.chain), call.event, ub)
             IN  ~printed.crashed /\ call.arg.Lines = printed.lines

\* the logger of the end-to-end scenario: threshold filter with minimum Info,
\* chain message -> prefix -> box, one stream output
HelloLogger ==
    /\ LogFilter = NewFilter("Production", Info)
    /\ LogPrinter = BuildPrinter(<<"Message", "Prefix", "Box">>, DefaultSeverityPrefixes)
    /\ LogOutput = NewStreamOutput(1)

C12_HelloThenIgnored ==
    (HelloLogger /\ call'.op = "Log") =>
        /\ (call'.event.Severity = Info /\ call'.event.Message = TextMessage(Hello)) =>
             LET written == SubSeq(streams'[1], Len(streams[1]) + 1, Len(streams'[1]))
                 body == DefaultSeverityPrefixes[Info].value \o Line_Fill(3, SP) \o Hello
             IN  /\ call'.result /\ call'.outcome = "returned"
                 /\ streams'[1] = streams[1] \o written
                 /\ Len(written) = 3
                 /\ \A i, j \in 1..3 : Len(written[i]) = Len(written[j])
                 /\ written[1] = <<TopLeft>> \o Line_Fill(Len(body), Horizontal) \o <<TopRight>>
                 /\ written[2] = <<Vertical>> \o body \o <<Vertical>>
                 /\ written[3] = <<BottomLeft>> \o Line_Fill(Len(body), Horizontal)
                                     \o <<BottomRight>>
        /\ (call'.event.Severity = Trace /\ call'.event.Message = TextMessage(Ignored)) =>
             /\ ~call'.result /\ call'.outcome = "returned"
             /\ streams' = streams
             /\ outputCalls' = outputCalls

\* C12: on a logger with a threshold filter of minimum Info, the chain
\* message -> prefix -> box and a stream output, Info("Hello") is accepted and
\* writes exactly three lines of equal width to the stream (upper border, the
\* boxed prefixed message, lower border), and Trace("ignored") on the same
\* logger writes nothing.
C12_EndToEnd == [][C12_HelloThenIgnored]_vars

\* Info("Hello") has written its three lines and Trace("ignored") was then
\* dropped
C12_Witness ==
    /\ HelloLogger
    /\ call.op = "Log" /\ call.event.Message = TextMessage(Ignored) /\ ~call.result
    /\ Len(streams[1]) = 3
    /\ outputCalls = 1
    /\ deliveries[1].event.Origin.Message = TextMessage(Hello)

----------------------------------------------------------------------------
(* Logger: the convenience operations *)

\* the LogEvent each convenience operation builds and hands to Log
Logger_Trace(message, time, location) ==
    [Severity |-> Trace, Message |-> message, Time |-> time, SourceLocation |-> location]
Logger_Debug(message, time, location) ==
    [Severity |-> Debug, Message |-> message, Time |-> time, SourceLocation |-> location]
Logger_Info(message, time, location) ==
    [Severity |-> Info, Message |-> message, Time |-> time, SourceLocation |-> location]

Logger_Warning_AsError(message, time, location) ==
    [Severity |-> Error, Message |-> message, Time |-> time, SourceLocation |-> location]

Logger_Warning(message, time, location) ==
    [Severity |-> Warning, Message |-> message, Time |-> time, SourceLocation |-> location]
Logger_Error(message, time, location) ==
    [Severity |-> Error, Message |-> message, Time |-> time, SourceLocation |-> location]
Logger_Fatal(message, time, location) ==
    [Severity |-> Fatal, Message |-> message, Time |-> time, SourceLocation |-> location]

\* the arguments of a convenience call: a message, a time, a call site
CallArguments ==
    [message : {TextMessage(<<>>), TextMessage(<<"a", NL, "a">>), ExceptionMessage(<<"x">>)},
     time : TimePoints,
     location : SourceLocations]

\* a logger is constructed and a caller is about to make one convenience call
\* with the arguments in call.arg
InitConvenience ==
    /\ NDEBUG \in BOOLEAN
    /\ LogFilter \in {f \in LoggerFilters :
                         f.kind = "Development" => DevelopmentFilter_WellFormed(NDEBUG)}
    /\ LogPrinter \in LoggerPrinters
    /\ LogOutput \in LoggerOutputs
    /\ streams = EmptyStreams
    /\ streamState = GoodStreams
    /\ deliveries = <<>>
    /\ printCalls = 0
    /\ outputCalls = 0
    /\ call \in {[NoCall EXCEPT !.arg = a] : a \in CallArguments}
    /\ status = "ok"

TraceCall ==
    call.op = "none" /\ Log(Logger_Trace(call.arg.message, call.arg.time, call.arg.location))
DebugCall ==
    call.op = "none" /\ Log(Logger_Debug(call.arg.message, call.arg.time, call.arg.location))
InfoCall ==
    call.op = "none" /\ Log(Logger_Info(call.arg.message, call.arg.time, call.arg.location))
WarningCall ==
    call.op = "none" /\ Log(Logger_Warning(call.arg.message, call.arg.time, call.arg.location))
ErrorCall ==
    call.op = "none" /\ Log(Logger_Error(call.arg.message, call.arg.time, call.arg.location))
FatalCall ==
    call.op = "none" /\ Log(Logger_Fatal(call.arg.message, call.arg.time, call.arg.location))

NextConvenience ==
    \/ TraceCall
    \/ DebugCall
    \/ InfoCall
    \/ WarningCall
    \/ ErrorCall
    \/ FatalCall

SpecConvenience == InitConvenience /\ [][NextConvenience]_vars

\* the step is one Log call on the event of the given severity built from the
\* arguments the caller passed
LoggedWith(severity) ==
    /\ call'.op = "Log"
    /\ call'.event = [Severity |-> severity, Message |-> call.arg.message,
                      Time |-> call.arg.time, SourceLocation |-> call.arg.location]
    /\ Len(SelectSeq(call'.inner, LAMBDA step : step = "Filter")) = 1
    /\ call'.result = LogFilter_Filter(LogFilter, NDEBUG, call'.event)
    /\ printCalls' = printCalls + (IF call'.result THEN 1 ELSE 0)

C13_NamedSeverity ==
    /\ TraceCall => LoggedWith(Trace)
    /\ DebugCall => LoggedWith(Debug)
    /\ InfoCall => LoggedWith(Info)
    /\ WarningCall => LoggedWith(Warning)
    /\ ErrorCall => LoggedWith(Error)
    /\ FatalCall => LoggedWith(Fatal)

\* C13: each of the convenience operations Trace, Debug, Info, Warning, Error
\* and Fatal makes exactly one Log call, on the event whose severity is the one
\* the operation is named after and whose message, time and source location
\* are exactly the arguments it was given.
C13_ConvenienceDelegates == [][C13_NamedSeverity]_vars

\* Warning(captured error, t0, util.cpp(7)) was logged as one Warning event
\* with these three values and written
C13_Witness ==
    /\ call.op = "Log"
    /\ call.event = [Severity |-> Warning, Message |-> ExceptionMessage(<<"x">>),
                     Time |-> "t0", SourceLocation |-> "util.cpp(7)"]
    /\ call.result /\ call.inner = <<"Filter", "Print", "Output">>
    /\ call.arg.Origin = call.event
    /\ printCalls = 1

----------------------------------------------------------------------------
(* DefaultLogger and LogFilter: the public data members *)

\* a caller assigns to the public, non-const member logger.LogFilter.MinSeverity
AssignMinSeverity(minSeverity) ==
    /\ status = "ok"
    /\ LogFilter.MinSeverity # minSeverity
    /\ LogFilter' = [LogFilter EXCEPT !.MinSeverity = minSeverity]
    /\ call' = [NoCall EXCEPT !.op = "MinSeverity", !.outcome = "returned"]
    /\ UNCHANGED <<NDEBUG, streamState, LogPrinter, LogOutput, streams, deliveries,
                   printCalls, outputCalls, status>>

\* the events logged between assignments
MemberEvents ==
    {[Severity |-> Info, Message |-> TextMessage(Hello),
      Time |-> "t1", SourceLocation |-> "util.cpp(7)"],
     [Severity |-> Trace, Message |-> TextMessage(Ignored),
      Time |-> "t1", SourceLocation |-> "util.cpp(7)"],
     [Severity |-> Error, Message |-> ExceptionMessage(<<"x">>),
      Time |-> "t1", SourceLocation |-> "util.cpp(7)"]}

NextMembers ==
    \/ \E event \in MemberEvents : Log(event)
    \/ \E minSeverity \in Severity : AssignMinSeverity(minSeverity)

SpecMembers == Init /\ [][NextMembers]_vars

Configuration == <<LogFilter, LogPrinter, LogOutput>>

C14_LogKeepsConfiguration == call'.op = "Log" => Configuration' = Configuration

----------------------------------------------------------------------------
(* The timestamp and the location printer *)

\* the chain below the head stage can run into undefined behaviour
InnerCanCrash ==
    /\ Len(LogPrinter.chain) > 1
    /\ \E ub \in UBOutcomes :
         ChainPrint(LogPrinter, Len(LogPrinter.chain) - 1, call.event, ub).crashed

C15_TimestampLine ==
    Printed("Timestamp") =>
        /\ call.outcome = "returned" \/ InnerCanCrash
        /\ call.outcome = "returned" =>
             /\ Len(call.lines) = Len(call.inner) + 1
             /\ call.lines[1] = LogPrinter.TimePrefix \o
                    (IF call.event.Time = InvalidTime THEN InvalidTimeText
                     ELSE Put_time(call.event.Time, LogPrinter.TimeFormat))
             /\ \A i \in 1..Len(call.inner) : call.lines[i + 1] = call.inner[i]

C15_LocationLine ==
    Printed("Location") =>
        /\ call.outcome = "returned" \/ InnerCanCrash
        /\ call.outcome = "returned" =>
             /\ Len(call.lines) = Len(call.inner) + 1
             /\ call.lines[1] = LogPrinter.LocationPrefix \o
                    (IF LogPrinter.SourceLocationFormatter = "default"
                     THEN DefaultSourceLocationFormatter(call.event.SourceLocation)
                     ELSE IF LogPrinter.SourceLocationFormatter = "file_name"
                     THEN FileNameFormatter(call.event.SourceLocation)
                     ELSE InvalidLocationText)
             /\ \A i \in 1..Len(call.inner) : call.lines[i + 1] = call.inner[i]

\* C15: for every event, when the inner printer has returned N >= 0 lines,
\* TimestampPrinter::Print and LocationPrinter::Print return N + 1 lines: first
\* the configured prefix followed by the formatted time, respectively by the
\* formatted source location (the fallback text where there is none), then the
\* N inner lines, unchanged and in order.
C15_SynthesizedLineFirst == C15_TimestampLine /\ C15_LocationLine

\* a timestamp printer over a location printer over the printer of an empty
\* message: the location printer added its line to no lines, the timestamp
\* printer put its line in front of that one
C15_Witness ==
    /\ Printed("Timestamp")
    /\ LogPrinter.chain = <<"Message", "Location", "Timestamp">>
    /\ LogPrinter.SourceLocationFormatter = "default"
    /\ call.event.Message = TextMessage(<<>>)
    /\ call.event.Time = "t0"
    /\ call.inner = <<DefaultLocationPrefix \o DefaultSourceLocationFormatter("main.cpp(1)")>>
    /\ call.lines = <<DefaultTimePrefix \o Put_time("t0", DefaultTimeFormat)>> \o call.inner

\* the chain below the head stage can fail: undefined behaviour or an exception
InnerCanFail ==
    /\ Len(LogPrinter.chain) > 1
    /\ \E ub \in UBOutcomes :
         LET printed == ChainPrint(LogPrinter, Len(LogPrinter.chain) - 1, call.event, ub)
         IN  printed.crashed \/ printed.thrown

FallbackFirst(prefix, fallback) ==
    /\ call.outcome = "returned"
    /\ call.lines = <<prefix \o fallback>> \o call.inner

\* C16 (as claimed): when the time conversion fails, or the source-location
\* formatter is absent or fails, Print does not raise or abort: it returns the
\* N inner lines behind one line made of the prefix and the fallback text
\* "<Invalid Time>", respectively "<Invalid Location>".
C16_FallbackOnFailure ==
    /\ (Printed("Timestamp") /\ Localtime_s_Fails(call.event.Time) /\ ~InnerCanFail) =>
           FallbackFirst(LogPrinter.TimePrefix, InvalidTimeText)
    /\ (Printed("Location") /\ LogPrinter.SourceLocationFormatter \in {"nullptr", "throwing"}
            /\ ~InnerCanFail) =>
           FallbackFirst(LogPrinter.LocationPrefix, InvalidLocationText)

\* the same for the two failures the code tests for: a time localtime_s
\* rejects, an empty formatter
FallbackOnFailure_Recovered ==
    /\ (Printed("Timestamp") /\ Localtime_s_Fails(call.event.Time) /\ ~InnerCanFail) =>
           FallbackFirst(LogPrinter.TimePrefix, InvalidTimeText)
    /\ (Printed("Location") /\ LogPrinter.SourceLocationFormatter = "nullptr"
            /\ ~InnerCanFail) =>
           FallbackFirst(LogPrinter.LocationPrefix, InvalidLocationText)

\* a formatter that throws: Print is left by the exception, no line is returned
FallbackOnFailure_Propagated ==
    (Printed("Location") /\ LogPrinter.SourceLocationFormatter = "throwing" /\ ~InnerCanFail) =>
        call.outcome = "threw" /\ call.lines = <<>>

----------------------------------------------------------------------------
(* The colored printer *)

\* the color the map configures for the severity, if any
ConfiguredColor(map, severity) == severity \in DOMAIN map /\ map[severity].has_value

\* C17: ColoredPrinter::Print returns, when a color is configured for the
\* event's severity, as many lines as the inner printer did, each being the
\* color's start sequence, the inner line and the reset sequence; when none is
\* configured (no entry for the severity, or an entry without a value such as
\* Debug's in the default map) it returns the inner lines unchanged.
C17_ColoredOrUnchanged ==
    Printed("Colored") =>
        /\ call.outcome = "returned" \/ InnerCanCrash
        /\ call.outcome = "returned" =>
             IF ConfiguredColor(LogPrinter.SeverityColors, call.event.Severity)
             THEN /\ Len(call.lines) = Len(call.inner)
                  /\ \A i \in 1..Len(call.inner) :
                       call.lines[i] =
                           LogPrinter.SeverityColors[call.event.Severity].value
                               \o call.inner[i] \o <<"ESC", "[", "0", "m">>
             ELSE call.lines = call.inner

\* the two lines of an Error message came back in the default map's red
C17_Witness ==
    /\ Printed("Colored")
    /\ LogPrinter.chain = <<"Message", "Colored">>
    /\ LogPrinter.SeverityColors = DefaultSeverityColors
    /\ call.event.Severity = Error
    /\ call.inner = << <<"a">>, <<"a">> >>
    /\ call.lines[1] = EscapeColor("196") \o <<"a">> \o resetColor
    /\ call.lines[2] = call.lines[1]

\* a Debug message came back unchanged under the default map
ColoredOrUnchanged_DebugWitness ==
    /\ Printed("Colored")
    /\ LogPrinter.SeverityColors = DefaultSeverityColors
    /\ call.event.Severity = Debug
    /\ call.inner # <<>> /\ call.lines = call.inner

----------------------------------------------------------------------------
(* The structured-field printer *)

KeyValue(key, value) == key \o <<"=">> \o value

\* the fields of the event that can be rendered, in the order level, message,
\* time; errorKey is the key of a captured error's text
RenderableFields(errorKey) ==
    LET severity == call.event.Severity
        message == call.event.Message
        levels == LogPrinter.LevelPrefixes
        level == IF severity \in DOMAIN levels /\ levels[severity].has_value
                 THEN <<KeyValue(<<"l", "e", "v", "e", "l">>, levels[severity].value)>>
                 ELSE <<>>
        text == IF message.kind = "Line"
                THEN <<KeyValue(<<"m", "e", "s", "s", "a", "g", "e">>, message.text)>>
                ELSE <<KeyValue(errorKey, message.text)>>
        time == IF call.event.Time = InvalidTime THEN <<>>
                ELSE <<KeyValue(<<"t", "i", "m", "e">>,
                                Put_time(call.event.Time, LogPrinter.LogFmtTimeFormat))>>
    IN  level \o text \o time

\* C18 (as claimed): LogFmtPrinter::Print returns one line for every event: the
\* renderable fields among level, message and time as key=value with exactly
\* these three keys, in this order, joined by single spaces, a field that
\* cannot be rendered being left out.
C18_LevelMessageTime ==
    Printed("LogFmt") =>
        /\ call.outcome = "returned"
        /\ call.lines = <<Join(RenderableFields(<<"m", "e", "s", "s", "a", "g", "e">>), SP)>>

\* C18 (amended): the same, the key of the message field being message for a
\* text message and error for a captured error.
C18_LevelMessageOrErrorTime ==
    Printed("LogFmt") =>
        /\ call.outcome = "returned"
        /\ call.lines = <<Join(RenderableFields(<<"e", "r", "r", "o", "r">>), SP)>>
        /\ Len(call.lines[1]) > 0

\* a captured error of a severity without a level and with a time that does
\* not convert printed as the single field error=x
C18_Witness ==
    /\ Printed("LogFmt")
    /\ call.event.Message = ExceptionMessage(<<"x">>)
    /\ call.event.Severity \notin DOMAIN LogPrinter.LevelPrefixes
    /\ call.event.Time = InvalidTime
    /\ call.lines = << <<"e", "r", "r", "o", "r", "=", "x">> >>

\* a text message with all three fields
LevelMessageTime_AllFields ==
    /\ Printed("LogFmt")
    /\ call.event.Message = TextMessage(<<"a", NL, "a">>)
    /\ LogPrinter.LevelPrefixes = LogFmtDefaultSeverityPrefixes
    /\ call.event.Severity = Warning /\ call.event.Time = "t0"
    /\ call.lines =
           << <<"l", "e", "v", "e", "l", "=", "w", "a", "r", "n", "i", "n", "g", SP,
                "m", "e", "s", "s", "a", "g", "e", "=", "a", NL, "a", SP,
                "t", "i", "m", "e", "=">> \o Put_time("t0", LogFmtDefaultTimeFormat) >>

----------------------------------------------------------------------------
(* The message printer on a captured error *)

\* C19: for an event whose message is a captured error, MessagePrinter::Print
\* returns exactly one line, the text "Error: " followed by the error's what(),
\* whatever the event's severity, time and source location.
C19_CapturedErrorLine ==
    (Printed("Message") /\ call.event.Message.kind = "exception") =>
        /\ call.outcome = "returned"
        /\ Len(call.lines) = 1
        /\ call.lines[1] = <<"E", "r", "r", "o", "r", ":", " ">> \o call.event.Message.text

\* the captured error x of a Fatal event printed as the line "Error: x"
C19_Witness ==
    /\ Printed("Message")
    /\ call.event.Message = ExceptionMessage(<<"x">>)
    /\ call.event.Severity = Fatal /\ call.event.Time = "t1"
    /\ call.lines = << <<"E", "r", "r", "o", "r", ":", " ", "x">> >>

----------------------------------------------------------------------------
(* The stream output *)

\* the lines of the events in order, one after the other
RECURSIVE AllLines(_)
AllLines(events) ==
    IF events = <<>> THEN <<>> ELSE Head(events).Lines \o AllLines(Tail(events))

C20_OneWrite ==
    (LogOutput.kind = "Stream" /\ call'.op = "Output" /\ outputCalls' = outputCalls + 1) =>
        LET sink == LogOutput.stream
            N == Len(call'.arg.Lines)
        IN  /\ call'.outcome = "returned"
            /\ Len(streams'[sink]) = Len(streams[sink]) + N
            /\ \A i \in 1..Len(streams[sink]) : streams'[sink][i] = streams[sink][i]
            /\ \A i \in 1..N : streams'[sink][Len(streams[sink]) + i] = call'.arg.Lines[i]
            /\ \A id \in OutputIds \ {sink} : streams'[id] = streams[id]

C20_SinkHoldsWhatWasWritten ==
    LogOutput.kind = "Stream" =>
        /\ streams[LogOutput.stream] = AllLines(ReceivedBy(LogOutput.stream))
        /\ Len(ReceivedBy(LogOutput.stream)) = outputCalls

\* C20: StreamOutput::Output appends each line of the OutputEvent as one
\* record to its stream, in order: a call with an event of N lines makes the
\* stream grow by exactly these N records and leaves what it held and every
\* other stream alone, a call with an event without lines writes nothing, and
\* the stream always holds the lines of all events written, in order.
C20_StreamRecords == []C20_SinkHoldsWhatWasWritten /\ [][C20_OneWrite]_vars

\* a write of three lines and then one of no lines, on the second stream
C20_Witness ==
    /\ LogOutput.kind = "Stream" /\ LogOutput.stream = 2
    /\ outputCalls = 2
    /\ call.op = "Output" /\ call.arg.Lines = <<>>
    /\ streams[2] = << <<"a">>, <<>>, <<"a">> >>
    /\ streams[1] = <<>>

----------------------------------------------------------------------------
(* Composition of printers *)

\* the events printed and logged by the composed printers: a severity below
\* the filter's threshold, one at it and one above, an empty text, a two-line
\* text and a captured error, at a call site with a time that converts and at
\* one with a time that does not
ChainEvents ==
    {e \in DecoratorEvents : e.Severity \in {Debug, Info, Fatal}}

\* the arguments of Prefixed(), Timestamped(), Located(), Colored() and
\* LogFmtPrinter() the composed printers are built with
ChainPrefixMaps ==
    {DefaultSeverityPrefixes,
     (Trace :> Some(<<"T">>)) @@ (Info :> Some(<<"W", "W">>)) @@ (Fatal :> NullOpt),
     (Info :> Some(<<>>)),
     <<>>}
ChainTimestampConfigs == {[TimeFormat |-> DefaultTimeFormat, Prefix |-> DefaultTimePrefix]}
ChainLocationConfigs ==
    {c \in LocationConfigs : c.SourceLocationFormatter \in {"default", "nullptr"}}
ChainColorMaps == {DefaultSeverityColors, (Debug :> Some(EscapeColor("46"))) @@ (Info :> NullOpt)}
ChainLogFmtConfigs ==
    {[SeverityPrefixes |-> LogFmtDefaultSeverityPrefixes, TimeFormat |-> LogFmtDefaultTimeFormat]}

\* a logger with a threshold filter and a stream output whose printer is yet to
\* be composed
InitChain ==
    /\ NDEBUG = FALSE
    /\ LogFilter = NewFilter("Production", Info)
    /\ LogPrinter = NoPrinter
    /\ LogOutput = NewStreamOutput(1)
    /\ streams = EmptyStreams
    /\ streamState = GoodStreams
    /\ deliveries = <<>>
    /\ printCalls = 0
    /\ outputCalls = 0
    /\ call \in {[NoCall EXCEPT !.event = e] : e \in ChainEvents}
    /\ status = "ok"

\* a caller invokes Log(event) on the logger that holds the composed printer
LogCall ==
    /\ call.op \notin {"Print", "Log"}
    /\ LogPrinter.chain # <<>>
    /\ Log(call.event)

\* the printer is composed before the logger takes it
NextChain ==
    \/ MessageCtor
    \/ \E c \in ChainLogFmtConfigs : LogFmtCtor(c.SeverityPrefixes, c.TimeFormat)
    \/ \E m \in ChainPrefixMaps : call.op # "Log" /\ PrefixPrinterCtor(m)
    \/ \E c \in ChainTimestampConfigs :
           call.op # "Log" /\ TimestampPrinterCtor(c.TimeFormat, c.Prefix)
    \/ \E c \in ChainLocationConfigs :
           call.op # "Log" /\ LocationPrinterCtor(c.SourceLocationFormatter, c.Prefix)
    \/ \E severityColors \in ChainColorMaps :
           call.op # "Log" /\ ColoredPrinterCtor(severityColors)
    \/ call.op # "Log" /\ BoxPrinterCtor
    \/ PrintCall
    \/ LogCall

SpecChain == InitChain /\ [][NextChain]_vars

\* Print on the composed printer returned
PrintReturned == call.op = "Print" /\ call.outcome = "returned"

\* the two outermost stages of the printer are `inner` below `outer`
Outermost(inner, outer) ==
    /\ Len(LogPrinter.chain) >= 3
    /\ LogPrinter.chain[Len(LogPrinter.chain) - 1] = inner
    /\ LogPrinter.chain[Len(LogPrinter.chain)] = outer

\* the lines of P, the printer below the two outermost stages
LinesOfP == call.calls[Len(LogPrinter.chain) - 2].lines

\* the time line and the location line of the event printed
TimeLineOf(event) ==
    LogPrinter.TimePrefix \o
        (IF event.Time = InvalidTime THEN InvalidTimeText
         ELSE Put_time(event.Time, LogPrinter.TimeFormat))
LocationLineOf(event) ==
    LogPrinter.LocationPrefix \o
        (IF LogPrinter.SourceLocationFormatter = "default"
         THEN DefaultSourceLocationFormatter(event.SourceLocation)
         ELSE IF LogPrinter.SourceLocationFormatter = "file_name"
         THEN FileNameFormatter(event.SourceLocation)
         ELSE InvalidLocationText)

\* the text PrefixPrinter puts in front of a line of the event: the configured
\* prefix padded to the longest configured one, nothing for a severity without
\* a configured prefix
LeadingOf(event) ==
    LET map == LogPrinter.SeverityPrefixes IN
    IF event.Severity \in Configured(map)
    THEN LET prefix == map[event.Severity].value
         IN  prefix \o [j \in 1..(LongestConfigured(map) - Len(prefix)) |-> SP]
    ELSE <<>>

PrefixedWith(leading, lines) == [i \in 1..Len(lines) |-> leading \o lines[i]]

\* at least one line in a frame as wide as the longest of them
Framed(lines) ==
    LET width == CHOOSE w \in {Len(lines[i]) : i \in 1..Len(lines)} :
                     \A i \in 1..Len(lines) : Len(lines[i]) <= w
        bar == [j \in 1..width |-> Horizontal]
    IN  << <<TopLeft>> \o bar \o <<TopRight>> >>
        \o [i \in 1..Len(lines) |->
               <<Vertical>> \o lines[i] \o [j \in 1..(width - Len(lines[i])) |-> SP]
                   \o <<Vertical>>]
        \o << <<BottomLeft>> \o bar \o <<BottomRight>> >>

\* the printer with its two outermost stages in the other order
OtherOrder(printer) ==
    LET n == Len(printer.chain)
    IN  [printer EXCEPT !.chain = [@ EXCEPT ![n - 1] = printer.chain[n],
                                            ![n] = printer.chain[n - 1]]]

\* the other order can return the lines this order returned
OtherOrderSameLines ==
    \E ub \in UBOutcomes :
        LET other == ChainPrint(OtherOrder(LogPrinter), Len(LogPrinter.chain), call.event, ub)
        IN  ~other.crashed /\ ~other.thrown /\ other.lines = call.lines

\* Timestamped(Located(P)) yields the time line, the location line, then P's
\* lines; Located(Timestamped(P)) yields the location line, the time line, then
\* P's lines
TimestampLocationOrder ==
    /\ (PrintReturned /\ Outermost("Location", "Timestamp")) =>
           call.lines = <<TimeLineOf(call.event), LocationLineOf(call.event)>> \o LinesOfP
    /\ (PrintReturned /\ Outermost("Timestamp", "Location")) =>
           call.lines = <<LocationLineOf(call.event), TimeLineOf(call.event)>> \o LinesOfP

\* C21 (as claimed): the order of composition determines the output: the
\* timestamp and the location printer put their lines in the order of their
\* nesting, outermost first, and for every event boxing a prefixed printer and
\* prefixing a boxed printer return different lines.
C21_OrderAlwaysDiffers ==
    /\ TimestampLocationOrder
    /\ (PrintReturned /\ (Outermost("Prefix", "Box") \/ Outermost("Box", "Prefix"))) =>
           ~OtherOrderSameLines

\* Box(Prefix(P)) frames the prefixed lines of P, Prefix(Box(P)) prefixes the
\* framed lines of P, border lines included, when P returned at least one line
PrefixBoxOrder ==
    /\ (PrintReturned /\ Outermost("Prefix", "Box") /\ LinesOfP # <<>>) =>
           call.lines = Framed(PrefixedWith(LeadingOf(call.event), LinesOfP))
    /\ (PrintReturned /\ Outermost("Box", "Prefix") /\ LinesOfP # <<>>) =>
           call.lines = PrefixedWith(LeadingOf(call.event), Framed(LinesOfP))

\* the two orders of Box and Prefix differ exactly when there is a text to put
\* in front of the lines
PrefixBoxDiffer ==
    (/\ PrintReturned
     /\ Outermost("Prefix", "Box") \/ Outermost("Box", "Prefix")
     /\ LinesOfP # <<>>) =>
        (OtherOrderSameLines <=> LeadingOf(call.event) = <<>>)

\* C21 (amended): the order of composition determines the output: for any inner
\* printer P, Timestamped(Located(P)) returns the time line, the location line,
\* then P's lines, and Located(Timestamped(P)) the location line, the time line,
\* then P's lines; when P returns at least one line, Box(Prefix(P)) frames the
\* prefixed lines and Prefix(Box(P)) prefixes the framed lines, border lines
\* included, and the two differ if and only if the event's severity has a
\* configured prefix whose padded text is not empty: for a severity without
\* one the PrefixPrinter passes the lines through and both orders return the
\* same lines.
C21_OrderDeterminesLines ==
    TimestampLocationOrder /\ PrefixBoxOrder /\ PrefixBoxDiffer

\* a boxed two-line message was prefixed for Info, whose prefix is the longest
\* configured: the border lines carry the prefix too
C21_Witness ==
    /\ PrintReturned
    /\ LogPrinter.chain = <<"Message", "Box", "Prefix">>
    /\ call.event.Severity = Info
    /\ LeadingOf(call.event) = <<"W", "W">>
    /\ LinesOfP = << <<"a">>, <<"a">> >>
    /\ call.lines = << <<"W", "W", TopLeft, Horizontal, TopRight>>,
                       <<"W", "W", Vertical, "a", Vertical>>,
                       <<"W", "W", Vertical, "a", Vertical>>,
                       <<"W", "W", BottomLeft, Horizontal, BottomRight>> >>
    /\ ~OtherOrderSameLines

\* the same chain printed an event whose severity has no configured prefix:
\* both orders return the frame alone
OrderDeterminesLines_SameLines ==
    /\ PrintReturned
    /\ Outermost("Box", "Prefix")
    /\ LinesOfP # <<>>
    /\ LeadingOf(call.event) = <<>>
    /\ OtherOrderSameLines

\* the timestamp printer over the location printer and the other way round
OrderDeterminesLines_TimeFirst ==
    /\ PrintReturned /\ Outermost("Location", "Timestamp")
    /\ call.lines[1] = TimeLineOf(call.event) /\ call.lines[2] = LocationLineOf(call.event)
OrderDeterminesLines_LocationFirst ==
    /\ PrintReturned /\ Outermost("Timestamp", "Location")
    /\ call.lines[1] = LocationLineOf(call.event) /\ call.lines[2] = TimeLineOf(call.event)

----------------------------------------------------------------------------
(* The sink over a sequence of Log calls *)

\* what the printer returned to the Log call just made
RenderedLines(c) == c.calls[Len(c.calls)].lines

\* one Log call on a logger with a stream output: an accepted event's rendered
\* lines are at the end of the sink when the call returns, in the printer's
\* order, and the printer and the output were called once each; a rejected
\* event leaves every sink as it was and calls neither; a call that does not
\* return wrote nothing
C22_LogAppends ==
    LogOutput.kind = "Stream" =>
        LET sink == LogOutput.stream IN
        /\ call'.op = "Log"
        /\ \A id \in OutputIds \ {sink} : streams'[id] = streams[id]
        /\ (call'.result /\ call'.outcome = "returned") =>
               /\ streams'[sink] = streams[sink] \o RenderedLines(call')
               /\ call'.inner = <<"Filter", "Print", "Output">>
               /\ printCalls' = printCalls + 1
               /\ outputCalls' = outputCalls + 1
               /\ Len(call'.calls) = Len(LogPrinter.chain)
        /\ ~call'.result =>
               /\ call'.outcome = "returned"
               /\ streams'[sink] = streams[sink]
               /\ call'.calls = <<>>
               /\ printCalls' = printCalls /\ outputCalls' = outputCalls
        /\ call'.outcome # "returned" => streams'[sink] = streams[sink]

\* the sink is empty before the first Log call
C22_EmptyAtFirst == (call.op = "none") => \A id \in OutputIds : streams[id] = <<>>

\* C22: after any sequence of Log calls on a logger with a stream output the
\* sink holds the rendered lines of the accepted events, event after event in
\* the order of the calls, each event's lines together and in the printer's
\* order; rejected events add nothing; a Log call that returns has written its
\* event's lines already, nothing is left for later.
C22_SinkIsConcatenation == []C22_EmptyAtFirst /\ [][C22_LogAppends]_vars

\* Info("Hello") then an accepted two-line message on a logger with the message
\* printer alone and a stream output: the sink holds Hello, then the two lines
C22_Witness ==
    /\ LogOutput.kind = "Stream"
    /\ LogPrinter.chain = <<"Message">>
    /\ printCalls = 2 /\ outputCalls = 2
    /\ call.op = "Log" /\ call.result /\ call.outcome = "returned"
    /\ call.event.Message = TextMessage(<<"a", NL, "a">>)
    /\ RenderedLines(call) = << <<"a">>, <<"a">> >>
    /\ streams[LogOutput.stream] = <<Hello, <<"a">>, <<"a">> >>

----------------------------------------------------------------------------
(* The padding lengths *)

\* PrefixPrinter: the length computed at construction is at least the length of
\* every configured prefix, and no Print was left by the exception a wrapped
\* count gives
C23_PrefixPadding ==
    /\ InChain(LogPrinter, "Prefix") =>
           \A s \in Configured(LogPrinter.SeverityPrefixes) :
               LogPrinter.LongestPrefixLength - Len(LogPrinter.SeverityPrefixes[s].value) >= 0
    /\ Printed("Prefix") => call.outcome # "threw"

\* BoxPrinter: the length of the horizontal line, the longest line's length as
\* Print computed it, is at least the length of every inner line
C23_BoxPadding ==
    Printed("Box") =>
        /\ call.outcome # "threw"
        /\ (call.outcome = "returned" /\ call.inner # <<>>) =>
               \A i \in 1..Len(call.inner) :
                   (Len(call.lines[1]) - 2) - Len(call.inner[i]) >= 0

\* C23: the unsigned padding lengths never underflow: in BoxPrinter::Print the
\* longest line length minus the length of any inner line is >= 0, and in
\* PrefixPrinter::Print, for every severity with a configured prefix,
\* LongestPrefixLength, computed at construction, minus that prefix's length is
\* >= 0.
C23_PaddingNeverUnderflows == C23_PrefixPadding /\ C23_BoxPadding

\* a message of one character and an empty second line, prefixed for Trace
\* with a prefix one shorter than the longest and then boxed: the prefix was
\* padded by one space, the shorter line by one more
C23_Witness ==
    /\ Printed("Box") /\ call.outcome = "returned"
    /\ LogPrinter.chain = <<"Message", "Prefix", "Box">>
    /\ LogPrinter.LongestPrefixLength = 2
    /\ call.event.Severity = Trace
    /\ Trace \in DOMAIN LogPrinter.SeverityPrefixes
    /\ LogPrinter.SeverityPrefixes[Trace] = Some(<<"T">>)
    /\ call.inner = << <<"T", SP, "a">>, <<"T", SP>> >>
    /\ call.lines[2] = <<Vertical, "T", SP, "a", Vertical>>
    /\ call.lines[3] = <<Vertical, "T", SP, SP, Vertical>>

----------------------------------------------------------------------------
(* The invocations of the stages *)

\* the printer was asked to print the event: by a caller of Print, or by Log
\* for an event the filter accepted
AskedToPrint ==
    /\ LogPrinter.chain # <<>>
    /\ call.op = "Print" \/ (call.op = "Log" /\ call.result)

\* C24: every decorating printer (Prefix, Colored, Timestamp, Location, Box)
\* invokes its inner printer's Print exactly once per Print call, with the
\* event it was given, also when it passes the lines through for the event's
\* severity; so one Print on a chain of d stages, and one Log of an accepted
\* event, invokes each of the d stages exactly once, the innermost coming back
\* first; Log of a rejected event invokes none.
C24_EachStageOnce ==
    /\ AskedToPrint =>
           /\ Len(call.calls) = Len(LogPrinter.chain)
           /\ \A k \in 1..Len(call.calls) :
                  /\ call.calls[k].depth = k
                  /\ call.calls[k].stage = LogPrinter.chain[k]
                  /\ call.calls[k].event = call.event
           /\ call.outcome = "returned" =>
                  /\ \A k \in 1..Len(call.calls) : call.calls[k].returned
                  /\ call.calls[Len(call.calls)].lines = call.lines
    /\ (call.op = "Log" /\ ~call.result) => call.calls = <<>>

\* Log of an accepted Fatal event on a message printer under a PrefixPrinter
\* and a ColoredPrinter that both have nothing configured for Fatal: each of
\* the three stages was invoked once and the decorators handed the two lines on
C24_Witness ==
    /\ call.op = "Log" /\ call.result /\ call.outcome = "returned"
    /\ LogPrinter.chain = <<"Message", "Prefix", "Colored">>
    /\ call.event.Severity = Fatal
    /\ Fatal \notin Configured(LogPrinter.SeverityPrefixes)
    /\ Fatal \notin DOMAIN LogPrinter.SeverityColors
    /\ Len(call.calls) = 3
    /\ \A k \in 1..3 : call.calls[k].lines = << <<"a">>, <<"a">> >>
    /\ streams[1] = << <<"a">>, <<"a">> >>
====
